---- MODULE Spec2Model ----
(***************************************************************************)
(* A model of the one-minute-agent core:                                   *)
(*   - the agent reasoning engine, nagents/base/agent.py (BaseAgent),      *)
(*     with the reply parser of one-minute-agent/agent.py;                 *)
(*   - the inter-agent message bus,                                        *)
(*     one_minute_agent/communication/message_bus.py;                      *)
(*   - the tool registry and executor, ollama_agent/base/tool_registry.py; *)
(*   - the coordination system and its event logger,                       *)
(*     one_minute_agent/communication/coordination_system.py and           *)
(*     event_logger.py.                                                    *)
(* The agent is checked under SpecAgent, and under SpecAgentLive for       *)
(* termination, the bus under SpecBus, the                                 *)
(* registry under SpecRegistry, the coordination system under SpecCoord,   *)
(* the event logger under SpecLogger, the communication tools of           *)
(* communication_tools.py under SpecTools.                                 *)
(***************************************************************************)
EXTENDS Integers, Sequences, FiniteSets, TLC

VARIABLES
    \* ---- BaseAgent ----
    max_iterations,   \* self.max_iterations
    hasExecutor,      \* self.tool_executor is not None
    messages,         \* self.messages: the conversation history
    pc,               \* where chat() stands: "idle", "loop", "final", "simple"
    iteration,        \* loop variable of _reasoning_loop: <<>> while unbound, else <<i>>
    called_tools,     \* local called_tools of _reasoning_loop
    executed_tools,   \* local executed_tools of _reasoning_loop
    response,         \* what the last chat() returned: <<>> or <<AgentResponse>>
    propagated,       \* TRUE once an exception left chat()
    chatNo,           \* number of chat() calls made so far
    callTrace,        \* the model-provider calls of the current chat(), in order
    execLog,          \* the tool names handed to tool_executor.execute in the current chat()
    requested,        \* the actions the model asked for in the current chat()
    stopReason,       \* why the reasoning loop of the current chat() stopped
    failed,           \* the exception raised inside the current chat(), "" if none
    outcomes,         \* what each execute() call of the current chat() did, in order
    lastReply,        \* <<the model's reply>> right after a reasoning round, else <<>>
    historyBefore,    \* self.messages as it was when the last chat() call was made
    \* ---- EmergencyMessageBus ----
    lock,             \* self._lock: "free" or the thread holding it
    subscribers,      \* self._subscribers: role -> list of callbacks
    message_history,  \* self._message_history
    priority_queue,   \* self._priority_queue: priority -> list of messages
    event_callbacks,  \* self._event_callbacks
    tpc,              \* per thread: where its publish() call stands
    cur,              \* per thread: the message its publish() call was given
                      \* (in a register_agent call: its role, as the recipient)
    idx,              \* per thread: position of the running for loop over callbacks
    ret,              \* per thread: outcome of its last publish(): "", "True" or "raised"
    nCalls,           \* number of publish() calls made so far
    nClears,          \* number of clear_history() calls made so far
    got,              \* <<>> or <<result>>: what a get_message_history() just returned
    publishLog,       \* every message appended to the history, in order, cleared or not
    subscriptions,    \* every subscribe() made: callback, role, Len(publishLog) then
    inbox,            \* per callback: the messages it was invoked with as a subscriber
    invoked,          \* per thread: the callbacks its current publish() has invoked
    lisAtAppend,      \* per thread: Len(event_callbacks) when its message was appended
    \* ---- ToolRegistry and ToolExecutor ----
    tools,            \* self.tools: name -> ToolDefinition
    providers,        \* self.providers
    result,           \* <<>> or <<what the last execute() returned>>
    lastCall,         \* <<>> or <<the tool name and func of the last execute()>>
    registered,       \* every definition handed to register_tool, in order
    \* ---- CoordinationSystem and EventLogger ----
    constructed,      \* the CoordinationSystem has been constructed
    agents,           \* self._agents: role -> <<>> or <<agent>>
    entries,          \* EventLogger._entries
    appended,         \* the entries the last operation appended to the log, in order
    logged,           \* every entry ever handed to _add_entry, in order
    clearedAt,        \* Len(logged) at the last EventLogger.clear(), 0 if none
    \* ---- communication tools ----
    toolReturn        \* <<>> or <<what the last communication tool call returned>>

agentVars == <<max_iterations, hasExecutor, messages, pc, iteration, called_tools,
               executed_tools, response, propagated, chatNo, callTrace, execLog,
               requested, stopReason, failed, outcomes, lastReply,
               historyBefore>>

busVars == <<lock, subscribers, message_history, priority_queue, event_callbacks,
             tpc, cur, idx, ret, nCalls, nClears, got, publishLog,
             subscriptions, inbox, invoked, lisAtAppend>>

regVars == <<tools, providers, result, lastCall, registered>>

coordVars == <<constructed, agents, entries, appended, logged, clearedAt, toolReturn>>

vars == <<agentVars, busVars, regVars, coordVars>>

\* ---------------------------------------------------------------- bounds
MaxIter == 2
MaxChats == 2
MaxOps == 3

\* ---------------------------------------------------------------- agent data
\* The tools tool_executor.get_available_tools() knows.
AvailableTools == {"get_location", "get_vitals"}

\* What the parsed reply's "action" can be: a known tool, an unknown tool, a
\* spelling of none, the empty string, None ("<absent>": a JSON null, or a
\* parser that leaves the key out) and a non-string.
ActionValues == AvailableTools \cup {"call_mom", "none", "None", "", "<absent>", "<number>"}

\* The outcomes of the final-answer model call followed by parse_final_response.
FinalReplies == {"answer", "transport_error", "parse_raises"}

\* The outcomes of tool_executor.execute followed by json.dumps of its result.
ExecOutcomes == {"success", "error", "raises", "unserializable"}

\* The Exception subclasses the modelled steps raise.
ExceptionKinds == {"ConnectionError", "TypeError", "AttributeError",
                   "UnboundLocalError", "RuntimeError"}

Last(s) == s[Len(s)]
Front(s) == SubSeq(s, 1, Len(s) - 1)

Turn(role, content, call) == [role |-> role, content |-> content, call |-> call]

\* str.lower() on the strings of the model.
Lower(a) ==
    CASE a = "None" -> "none"
      [] a = "Check Pulse" -> "check pulse"
      [] a = "Get_Location" -> "get_location"
      [] OTHER -> a

\* Python truthiness of the action value (None and "" are falsy).
ActionFalsy(a) == a \in {"", "<absent>"}

\* `not action or action.lower() == "none"`, where it does not raise.
ActionIsNone(a) == ActionFalsy(a) \/ Lower(a) = "none"

\* action.lower() raises AttributeError on a truthy non-string.
ActionLowerRaises(a) == ~ActionFalsy(a) /\ a = "<number>"

\* `for iteration in range(self.max_iterations)`: is there an iteration i?
LoopContinuesOffByOne(i, maxit) == i <= maxit
LoopContinues(i, maxit) == i < maxit

NextIteration == IF iteration = <<>> THEN 0 ELSE iteration[1] + 1

\* Where _reasoning_loop stands once the for loop is left, by break or by
\* exhaustion: at the call of _get_final_answer.
AfterLoopStaysInLoop == "loop"
AfterLoop == "final"

\* The tool branch of the loop: executor present, tool known, not yet called.
MayExecuteIgnoringCalled(a, called) == hasExecutor /\ a \in AvailableTools
MayExecuteUnknown(a, called) == hasExecutor /\ a \notin called
MayExecute(a, called) == hasExecutor /\ a \in AvailableTools /\ a \notin called

\* `except Exception`: every modelled exception is an Exception subclass.
CaughtOnlyTransport(e) == e = "ConnectionError"
Caught(e) == e \in ExceptionKinds

\* The except handler's rollback: pop the last turn if it is a user turn.
Rollback(msgs) ==
    IF Len(msgs) > 0 /\ Last(msgs).role = "user" THEN Front(msgs) ELSE msgs

FailureResponse(e) ==
    [content |-> "I encountered an error processing your request. Please try again.",
     tools_executed |-> <<>>,
     metadata |-> [error |-> e]]

\* An exception e raised inside chat()'s try block, with the history as msgs.
Raise(e, msgs) ==
    /\ failed' = e
    /\ pc' = "idle"
    /\ IF Caught(e)
         THEN /\ messages' = Rollback(msgs)
              /\ response' = <<FailureResponse(e)>>
              /\ propagated' = propagated
         ELSE /\ messages' = msgs
              /\ response' = <<>>
              /\ propagated' = TRUE

\* ---------------------------------------------------------------- reply parser
\* The replies of the model that json.loads turns into an object: with or
\* without a "thought" key, with or without an "action" key.
ObjectReplies ==
    {[form |-> "object", thought |-> <<"Check Pulse">>, action |-> <<a>>] : a \in ActionValues}
    \cup {[form |-> "object", thought |-> <<>>, action |-> <<>>]}

\* The replies json.loads turns into something that is not an object.
JsonOtherReplies == {[form |-> "json", value |-> v] : v \in {"5"}}

\* A line of a plain-text reply: `key: "value"`, or a line with no key.
Line(key, value) == [key |-> key, value |-> value]

\* The replies json.loads rejects, as their lines.
TextReplies ==
    {[form |-> "text", lines |-> ls] : ls \in
        {<<Line("other", "I cannot help")>>,
         <<Line("thought", "check pulse")>>,
         <<Line("thought", "Check Pulse")>>,
         <<Line("thought", "check pulse"), Line("action", "Get_Location")>>,
         <<Line("action", "None")>>,
         <<Line("thought", "")>>}}

ModelReplies == ObjectReplies \cup JsonOtherReplies \cup TextReplies

\* model_provider.chat returns a reply or raises.
ModelCalls == {[form |-> "raises"]} \cup ModelReplies

\* _extract_value_from_line: the value is cut out of line.lower().
extract_value_from_line(line) == Lower(line.value)

\* The for loop of _parse_malformed_reasoning over the lines.
RECURSIVE MalformedFields(_, _)
MalformedFields(lines, res) ==
    IF lines = <<>> THEN res
    ELSE MalformedFields(Tail(lines),
            CASE Head(lines).key = "thought" ->
                   [res EXCEPT !.thought = extract_value_from_line(Head(lines))]
              [] Head(lines).key = "action" ->
                   [res EXCEPT !.action = extract_value_from_line(Head(lines))]
              [] OTHER -> res)

\* _parse_malformed_reasoning
parse_malformed_reasoning(lines) ==
    LET res == MalformedFields(lines, [thought |-> "", action |-> "None"]) IN
    IF res.thought # "" \/ res.action # "None"
      THEN [kind |-> "parsed", thought |-> res.thought, action |-> res.action]
      ELSE [kind |-> "unparsable"]

\* OneMinuteAgent.parse_reasoning_response: only json.JSONDecodeError is
\* handled; `"thought" not in parsed` or the item assignment raises TypeError
\* on a number or a list.
parse_reasoning_response(r) ==
    CASE r.form = "object" ->
           [kind |-> "parsed",
            thought |-> IF r.thought = <<>> THEN "Analyzing emergency situation..."
                        ELSE r.thought[1],
            action |-> IF r.action = <<>> THEN "None" ELSE r.action[1]]
      [] r.form = "json" -> [kind |-> "parse_raises"]
      [] OTHER -> parse_malformed_reasoning(r.lines)

\* One model-provider call followed by parse_reasoning_response, as the loop
\* sees it: what happened, and the parsed "action".
ModelCallOutcome(c) ==
    IF c.form = "raises" THEN [kind |-> "transport_error", action |-> ""]
    ELSE IF parse_reasoning_response(c).kind = "parsed"
      THEN [kind |-> "parsed", action |-> parse_reasoning_response(c).action]
      ELSE [kind |-> parse_reasoning_response(c).kind, action |-> ""]

\* What execute() can do in a round that starts with the model call c: it is
\* only called when the parsed action names a tool.
ExecOutcomesOf(c) ==
    IF ModelCallOutcome(c).action \in AvailableTools THEN ExecOutcomes ELSE {"success"}

\* ---------------------------------------------------------------- executor
\* The callables tools are registered with; each has its own return value.
Funcs == {"f1", "f2"}

\* ToolDefinition(name, ..., func, ...)
ToolDefinition(name, func) == [name |-> name, func |-> func]

\* What a tool body does when execute() calls it.
ToolBodies == {"returns", "raises"}

\* registry.has_tool(name)
has_tool(reg, name) == name \in DOMAIN reg

\* ToolExecutor.execute(tool_name, args): the envelope it returns when the
\* registry is reg and the tool body does body.
execute(reg, tool_name, body) ==
    IF ~has_tool(reg, tool_name)
      THEN [status |-> "error",
            message |-> <<"Tool '", tool_name, "' not found">>]
      ELSE IF body = "raises"
        THEN [status |-> "error",
              message |-> <<"Tool execution failed: ", reg[tool_name].func>>,
              tool |-> tool_name]
        ELSE [status |-> "success",
              data |-> <<"result of", reg[tool_name].func>>,
              tool |-> tool_name]

\* The registry behind the agent's tool_executor.
AgentTools == [n \in AvailableTools |-> ToolDefinition(n, "f1")]

\* What the tool body did, for each outcome of an execute() call that returned.
BodyOf(outcome) == IF outcome = "error" THEN "raises" ELSE "returns"

\* Does tool_executor.execute itself raise?  ToolExecutor.execute catches what
\* the tool body raises; only another implementation of the protocol raises.
ExecutorRaisesOnToolError(outcome) == outcome \in {"raises", "error"}
ExecutorRaises(outcome) == outcome = "raises"

\* f"Tool result: {json.dumps(tool_result)}"
ToolResultContentBare(tool_result) == <<tool_result>>
ToolResultContent(tool_result) == <<"Tool result: ", tool_result>>

\* ---------------------------------------------------------------- agent actions
InitAgent ==
    /\ max_iterations \in 0..MaxIter
    /\ hasExecutor \in BOOLEAN
    /\ messages = <<>>
    /\ pc = "idle"
    /\ iteration = <<>>
    /\ called_tools = {}
    /\ executed_tools = <<>>
    /\ response = <<>>
    /\ propagated = FALSE
    /\ chatNo = 0
    /\ callTrace = <<>>
    /\ execLog = <<>>
    /\ requested = <<>>
    /\ stopReason = ""
    /\ failed = ""
    /\ outcomes = <<>>
    /\ lastReply = <<>>
    /\ historyBefore = <<>>

\* chat(user_input) up to the dispatch: append the user turn, then
\* called_tools = set() at the top of _reasoning_loop: a local of the call.
CalledToolsKept(called) == called
FreshCalledTools(called) == {}

\* should_use_reasoning_loop / build_system_prompt return or raise.
ChatBegin(u, mode) ==
    /\ pc = "idle"
    /\ UNCHANGED <<busVars, regVars, coordVars>>
    /\ ~propagated
    /\ chatNo < MaxChats
    /\ chatNo' = chatNo + 1
    /\ callTrace' = <<>>
    /\ execLog' = <<>>
    /\ outcomes' = <<>>
    /\ lastReply' = <<>>
    /\ historyBefore' = messages
    /\ requested' = <<>>
    /\ stopReason' = ""
    /\ iteration' = <<>>
    /\ called_tools' = FreshCalledTools(called_tools)
    /\ executed_tools' = <<>>
    /\ UNCHANGED <<max_iterations, hasExecutor>>
    /\ LET msgs == Append(messages, Turn("user", u, chatNo + 1)) IN
         CASE mode = "reasoning" ->
                /\ messages' = msgs
                /\ pc' = "loop"
                /\ failed' = ""
                /\ UNCHANGED <<response, propagated>>
           [] mode = "simple" ->
                /\ messages' = msgs
                /\ pc' = "simple"
                /\ failed' = ""
                /\ UNCHANGED <<response, propagated>>
           [] OTHER -> Raise("RuntimeError", msgs)

\* self.messages.append(Message(role="system", content=f"Tool result: ..."))
\* right after the tool has returned, before the next pass of the loop.
ToolResultDeferred(msgs, turn) == msgs
ToolResultAppended(msgs, turn) == Append(msgs, turn)

\* One pass of the for loop of _reasoning_loop: model call, parse, act.
ReasoningRound(call, outcome) ==
    /\ pc = "loop"
    /\ UNCHANGED <<busVars, regVars, coordVars>>
    /\ LoopContinues(NextIteration, max_iterations)
    /\ iteration' = <<NextIteration>>
    /\ callTrace' = Append(callTrace, "round")
    /\ lastReply' = IF call.form = "raises" THEN <<>> ELSE <<call>>
    /\ UNCHANGED historyBefore
    /\ UNCHANGED <<max_iterations, hasExecutor, chatNo>>
    /\ LET reply == ModelCallOutcome(call) IN
       CASE reply.kind = "transport_error" ->
              /\ Raise("ConnectionError", messages)
              /\ UNCHANGED <<called_tools, executed_tools, execLog, outcomes, requested, stopReason>>
         [] reply.kind = "parse_raises" ->
              /\ Raise("TypeError", messages)
              /\ UNCHANGED <<called_tools, executed_tools, execLog, outcomes, requested, stopReason>>
         [] reply.kind = "unparsable" ->
              /\ pc' = AfterLoop
              /\ stopReason' = "unparsable"
              /\ UNCHANGED <<messages, response, propagated, failed, called_tools,
                             executed_tools, execLog, outcomes, requested>>
         [] OTHER ->
              LET a == reply.action IN
              /\ requested' = Append(requested, a)
              /\ IF ActionLowerRaises(a) THEN
                    /\ Raise("AttributeError", messages)
                    /\ UNCHANGED <<called_tools, executed_tools, execLog, outcomes, stopReason>>
                 ELSE IF ActionIsNone(a) THEN
                    /\ pc' = AfterLoop
                    /\ stopReason' = "none"
                    /\ UNCHANGED <<messages, response, propagated, failed, called_tools,
                                   executed_tools, execLog, outcomes>>
                 ELSE IF MayExecute(a, called_tools) THEN
                    LET tool_result == execute(AgentTools, a, BodyOf(outcome)) IN
                    /\ execLog' = Append(execLog, a)
                    /\ outcomes' = Append(outcomes, outcome)
                    /\ UNCHANGED stopReason
                    /\ CASE ExecutorRaises(outcome) ->
                              /\ Raise("RuntimeError", messages)
                              /\ UNCHANGED <<called_tools, executed_tools>>
                         [] outcome = "unserializable" ->
                              /\ executed_tools' = Append(executed_tools,
                                                          [tool |-> a, result |-> tool_result])
                              /\ called_tools' = called_tools \cup {a}
                              /\ Raise("TypeError", messages)
                         [] OTHER ->
                              /\ executed_tools' = Append(executed_tools,
                                                          [tool |-> a, result |-> tool_result])
                              /\ called_tools' = called_tools \cup {a}
                              /\ messages' = ToolResultAppended(messages,
                                    Turn("system", ToolResultContent(tool_result), chatNo))
                              /\ pc' = "loop"
                              /\ UNCHANGED <<response, propagated, failed>>
                 ELSE
                    /\ pc' = AfterLoop
                    /\ stopReason' = IF a \in called_tools THEN "duplicate" ELSE "unknown"
                    /\ UNCHANGED <<messages, response, propagated, failed, called_tools,
                                   executed_tools, execLog, outcomes>>

\* The for loop runs out of iterations.
LoopExhausted ==
    /\ pc = "loop"
    /\ UNCHANGED <<busVars, regVars, coordVars>>
    /\ ~LoopContinues(NextIteration, max_iterations)
    /\ pc' = AfterLoop
    /\ stopReason' = "cap"
    /\ UNCHANGED <<max_iterations, hasExecutor, messages, iteration, called_tools,
                   executed_tools, response, propagated, chatNo, callTrace, execLog, outcomes,
                   requested, failed>>
    /\ lastReply' = <<>>
    /\ UNCHANGED historyBefore

\* _get_final_answer issues one model call with the final-answer prompt.
FinalCallTwice(trace) == trace \o <<"final", "final">>
FinalCall(trace) == Append(trace, "final")

\* _get_final_answer, the assistant turn and the AgentResponse of _reasoning_loop.
FinalAnswer(reply) ==
    /\ pc = "final"
    /\ UNCHANGED <<busVars, regVars, coordVars>>
    /\ callTrace' = FinalCall(callTrace)
    /\ UNCHANGED <<max_iterations, hasExecutor, iteration, called_tools, executed_tools,
                   chatNo, execLog, outcomes, requested, stopReason>>
    /\ lastReply' = <<>>
    /\ UNCHANGED historyBefore
    /\ CASE reply = "transport_error" -> Raise("ConnectionError", messages)
         [] reply = "parse_raises" -> Raise("TypeError", messages)
         [] OTHER ->
              LET msgs == Append(messages, Turn("assistant", reply, chatNo)) IN
              IF iteration = <<>>
                THEN Raise("UnboundLocalError", msgs)
                ELSE /\ messages' = msgs
                     /\ pc' = "idle"
                     /\ response' = <<[content |-> reply,
                                       tools_executed |-> executed_tools,
                                       metadata |-> [thinking_iterations |-> iteration[1] + 1,
                                                     tools_used |-> Len(executed_tools)]]>>
                     /\ UNCHANGED <<propagated, failed>>

\* _simple_response issues one model call with the normal system prompt.
SimpleCallTwice(trace) == trace \o <<"simple", "simple">>
SimpleCall(trace) == Append(trace, "simple")

\* _simple_response: one model call, parse_final_response, assistant turn.
SimpleResponse(reply) ==
    /\ pc = "simple"
    /\ UNCHANGED <<busVars, regVars, coordVars>>
    /\ callTrace' = SimpleCall(callTrace)
    /\ UNCHANGED <<max_iterations, hasExecutor, iteration, called_tools, executed_tools,
                   chatNo, execLog, outcomes, requested, stopReason>>
    /\ lastReply' = <<>>
    /\ UNCHANGED historyBefore
    /\ CASE reply = "transport_error" -> Raise("ConnectionError", messages)
         [] reply = "parse_raises" -> Raise("TypeError", messages)
         [] OTHER ->
              /\ messages' = Append(messages, Turn("assistant", reply, chatNo))
              /\ pc' = "idle"
              /\ response' = <<[content |-> reply,
                                tools_executed |-> <<>>,
                                metadata |-> [type |-> "simple"]]>>
              /\ UNCHANGED <<propagated, failed>>

\* clear_conversation()
ClearConversation ==
    /\ pc = "idle"
    /\ UNCHANGED <<busVars, regVars, coordVars>>
    /\ messages # <<>>
    /\ messages' = <<>>
    /\ UNCHANGED <<max_iterations, hasExecutor, pc, iteration, called_tools,
                   executed_tools, response, propagated, chatNo, callTrace, execLog, outcomes,
                   requested, stopReason, failed>>
    /\ lastReply' = <<>>
    /\ historyBefore' = <<>>

NextAgent ==
    \/ \E u \in {"hello"}, mode \in {"reasoning", "simple", "raises"} : ChatBegin(u, mode)
    \/ \E call \in ModelCalls : \E outcome \in ExecOutcomesOf(call) :
          ReasoningRound(call, outcome)
    \/ LoopExhausted
    \/ \E reply \in FinalReplies : FinalAnswer(reply)
    \/ \E reply \in FinalReplies : SimpleResponse(reply)
    \/ ClearConversation

\* ---------------------------------------------------------------- bus data
Threads == {"T1", "T2"}

\* AgentRole
Roles == {"victim_assistant", "operator", "system"}

\* Priority
CRITICAL == 1
HIGH == 2
MEDIUM == 3
LOW == 4
Priorities == {CRITICAL, HIGH, MEDIUM, LOW}

\* The callables handed to subscribe() and add_event_listener().
Callbacks == {"cb1", "cb2"}
Listeners == {"lis1"}

\* Messages the constructors of message_types.py build: a SituationUpdate, a
\* DispatchUpdate of medium priority and an EmergencyEscalation.
MessageInputs ==
    {[sender |-> "victim_assistant", recipient |-> "operator", priority |-> HIGH,
      message_type |-> "situation_update"],
     [sender |-> "operator", recipient |-> "victim_assistant", priority |-> MEDIUM,
      message_type |-> "dispatch_update"],
     [sender |-> "victim_assistant", recipient |-> "operator", priority |-> CRITICAL,
      message_type |-> "emergency_escalation"]}

\* InterAgentMessage with a fresh id.
Message(id, mi) ==
    [id |-> id, sender |-> mi.sender, recipient |-> mi.recipient,
     priority |-> mi.priority, message_type |-> mi.message_type]

NoMessage == [id |-> 0, sender |-> "system", recipient |-> "system", priority |-> MEDIUM,
              message_type |-> "status_update"]

\* threading.Lock: acquirable only while nobody holds it.
LockAvailableAlways(l) == TRUE
LockAvailable(l) == l = "free"

\* self._message_history.append(message)
HistoryAppendedTwice(h, m) == h \o <<m, m>>
HistoryInsertedByPriority(h, m) ==
    LET before == SelectSeq(h, LAMBDA x : x.priority <= m.priority)
        after == SelectSeq(h, LAMBDA x : x.priority > m.priority)
    IN before \o <<m>> \o after
HistoryAppended(h, m) == Append(h, m)

\* self._priority_queue[message.priority].append(message)
QueuePrepended(q, m) == [q EXCEPT ![m.priority] = <<m>> \o @]
QueueAppended(q, m) == [q EXCEPT ![m.priority] = Append(@, m)]

\* get_priority_messages(priority): a copy of the bucket.
get_priority_messages(q, priority) == q[priority]

\* A for loop over callbacks, standing at position i, has no callback left.
LoopOverAtOnce(i, callbacks) == TRUE
LoopOver(i, callbacks) == i > Len(callbacks)

\* `try: callback(message) except Exception: print(...)`: does a raising callback
\* end the publish() call?
PropagatesWhenRaised(raised) == raised
Propagates(raised) == FALSE

\* The limit arguments of get_message_history: <<>> is None, <<n>> is n.
Limits == {<<>>, <<0>>, <<1>>, <<2>>}

\* get_message_history(limit)
GetHistoryOldest(h, lim) ==
    IF lim = <<>> \/ lim[1] = 0
      THEN h
      ELSE SubSeq(h, 1, IF Len(h) > lim[1] THEN lim[1] ELSE Len(h))
GetHistory(h, lim) ==
    IF lim = <<>> \/ lim[1] = 0
      THEN h
      ELSE SubSeq(h, IF Len(h) > lim[1] THEN Len(h) - lim[1] + 1 ELSE 1, Len(h))

\* self._subscribers[message.recipient]: the callbacks publish() delivers m to.
SubscriberListAllRoles(m) ==
    subscribers["victim_assistant"] \o subscribers["operator"] \o subscribers["system"]
SubscriberList(m) == subscribers[m.recipient]

\* The publish, subscribe and add_event_listener calls made so far.
OpsDone == nCalls + Len(subscriptions) + Len(event_callbacks)

\* ---------------------------------------------------------------- bus actions
InitBus ==
    /\ lock = "free"
    /\ subscribers = [r \in Roles |-> <<>>]
    /\ message_history = <<>>
    /\ priority_queue = [p \in Priorities |-> <<>>]
    /\ event_callbacks = <<>>
    /\ tpc = [t \in Threads |-> "idle"]
    /\ cur = [t \in Threads |-> NoMessage]
    /\ idx = [t \in Threads |-> 0]
    /\ ret = [t \in Threads |-> ""]
    /\ nCalls = 0
    /\ nClears = 0
    /\ got = <<>>
    /\ publishLog = <<>>
    /\ subscriptions = <<>>
    /\ inbox = [c \in Callbacks |-> <<>>]
    /\ invoked = [t \in Threads |-> <<>>]
    /\ lisAtAppend = [t \in Threads |-> 0]

\* A thread calls publish(message) and reaches `with self._lock`.
PublishCall(t, mi) ==
    /\ tpc[t] = "idle"
    /\ UNCHANGED <<agentVars, regVars, coordVars>>
    /\ OpsDone < MaxOps
    /\ nCalls' = nCalls + 1
    /\ cur' = [cur EXCEPT ![t] = Message(nCalls + 1, mi)]
    /\ tpc' = [tpc EXCEPT ![t] = "acquire"]
    /\ ret' = [ret EXCEPT ![t] = ""]
    /\ invoked' = [invoked EXCEPT ![t] = <<>>]
    /\ got' = <<>>
    /\ UNCHANGED <<lock, subscribers, message_history, priority_queue, event_callbacks,
                   idx, nClears, publishLog, subscriptions, inbox,
                   lisAtAppend>>

\* `with self._lock:` is entered.
PublishAcquire(t) ==
    /\ tpc[t] = "acquire"
    /\ UNCHANGED <<agentVars, regVars, coordVars>>
    /\ LockAvailable(lock)
    /\ lock' = t
    /\ tpc' = [tpc EXCEPT ![t] = "enqueue"]
    /\ got' = <<>>
    /\ UNCHANGED <<subscribers, message_history, priority_queue, event_callbacks,
                   cur, idx, ret, nCalls, nClears, publishLog,
                   subscriptions, inbox, invoked, lisAtAppend>>

\* self._priority_queue[message.priority].append(message)
PublishEnqueue(t) ==
    /\ tpc[t] = "enqueue"
    /\ UNCHANGED <<agentVars, regVars, coordVars>>
    /\ priority_queue' = QueueAppended(priority_queue, cur[t])
    /\ tpc' = [tpc EXCEPT ![t] = "append"]
    /\ got' = <<>>
    /\ UNCHANGED <<lock, subscribers, message_history, event_callbacks,
                   cur, idx, ret, nCalls, nClears, publishLog,
                   subscriptions, inbox, invoked, lisAtAppend>>

\* self._message_history.append(message)
PublishAppend(t) ==
    /\ tpc[t] = "append"
    /\ UNCHANGED <<agentVars, regVars, coordVars>>
    /\ message_history' = HistoryAppended(message_history, cur[t])
    /\ publishLog' = Append(publishLog, cur[t])
    /\ lisAtAppend' = [lisAtAppend EXCEPT ![t] = Len(event_callbacks)]
    /\ tpc' = [tpc EXCEPT ![t] = "listeners"]
    /\ idx' = [idx EXCEPT ![t] = 1]
    /\ got' = <<>>
    /\ UNCHANGED <<lock, subscribers, priority_queue, event_callbacks,
                   cur, ret, nCalls, nClears, subscriptions, inbox, invoked>>

\* One callback(message) of a for loop of publish(), raising or not; an
\* exception that is not caught leaves publish() and releases the lock.
Invoke(t, kind, cb, raised) ==
    /\ invoked' = [invoked EXCEPT ![t] = Append(@, [kind |-> kind, cb |-> cb,
                                                     raised |-> raised])]
    /\ IF Propagates(raised)
         THEN /\ tpc' = [tpc EXCEPT ![t] = "idle"]
              /\ ret' = [ret EXCEPT ![t] = "raised"]
              /\ lock' = IF lock = t THEN "free" ELSE lock
              /\ UNCHANGED idx
         ELSE /\ idx' = [idx EXCEPT ![t] = @ + 1]
              /\ UNCHANGED <<tpc, ret, lock>>

\* `for callback in self._event_callbacks:` one iteration.
NotifyListener(t, raised) ==
    /\ tpc[t] = "listeners"
    /\ UNCHANGED <<agentVars, regVars, coordVars>>
    /\ idx[t] <= Len(event_callbacks)
    /\ Invoke(t, "listener", event_callbacks[idx[t]], raised)
    /\ got' = <<>>
    /\ UNCHANGED <<subscribers, message_history, priority_queue, event_callbacks,
                   cur, nCalls, nClears, publishLog, subscriptions, inbox,
                   lisAtAppend>>

\* The listener loop ends; `if message.recipient in self._subscribers`.
ListenersDone(t) ==
    /\ tpc[t] = "listeners"
    /\ UNCHANGED <<agentVars, regVars, coordVars>>
    /\ LoopOver(idx[t], event_callbacks)
    /\ tpc' = [tpc EXCEPT ![t] = "subscribers"]
    /\ idx' = [idx EXCEPT ![t] = 1]
    /\ got' = <<>>
    /\ UNCHANGED <<lock, subscribers, message_history, priority_queue, event_callbacks,
                   cur, ret, nCalls, nClears, publishLog, subscriptions,
                   inbox, invoked, lisAtAppend>>

\* `for callback in self._subscribers[message.recipient]:` one iteration.
DeliverSubscriber(t, raised) ==
    /\ tpc[t] = "subscribers"
    /\ UNCHANGED <<agentVars, regVars, coordVars>>
    /\ idx[t] <= Len(SubscriberList(cur[t]))
    /\ Invoke(t, "subscriber", SubscriberList(cur[t])[idx[t]], raised)
    /\ inbox' = [inbox EXCEPT ![SubscriberList(cur[t])[idx[t]]] = Append(@, cur[t])]
    /\ got' = <<>>
    /\ UNCHANGED <<subscribers, message_history, priority_queue, event_callbacks,
                   cur, nCalls, nClears, publishLog, subscriptions,
                   lisAtAppend>>

\* `return True`, leaving the with block; the call's locals are gone.
PublishReturn(t) ==
    /\ tpc[t] = "subscribers"
    /\ UNCHANGED <<agentVars, regVars, coordVars>>
    /\ LoopOver(idx[t], SubscriberList(cur[t]))
    /\ tpc' = [tpc EXCEPT ![t] = "idle"]
    /\ ret' = [ret EXCEPT ![t] = "True"]
    /\ lock' = IF lock = t THEN "free" ELSE lock
    /\ cur' = [cur EXCEPT ![t] = NoMessage]
    /\ idx' = [idx EXCEPT ![t] = 0]
    /\ invoked' = [invoked EXCEPT ![t] = <<>>]
    /\ lisAtAppend' = [lisAtAppend EXCEPT ![t] = 0]
    /\ got' = <<>>
    /\ UNCHANGED <<subscribers, message_history, priority_queue, event_callbacks,
                   nCalls, nClears, publishLog, subscriptions, inbox>>

\* What subscribe(role, callback) invokes the new callback with: nothing, it
\* only appends the callback to the role's list.
InboxReplayed(ib, role, cb) ==
    [ib EXCEPT ![cb] = @ \o SelectSeq(message_history, LAMBDA m : m.recipient = role)]
InboxAfterSubscribe(ib, role, cb) == ib

\* subscribe(role, callback), by a thread that is not inside publish().
Subscribe(t, role, cb) ==
    /\ tpc[t] = "idle"
    /\ UNCHANGED <<agentVars, regVars, coordVars>>
    /\ LockAvailable(lock)
    /\ OpsDone < MaxOps
    /\ subscribers' = [subscribers EXCEPT ![role] = Append(@, cb)]
    /\ subscriptions' = Append(subscriptions,
                               [cb |-> cb, role |-> role, at |-> Len(publishLog)])
    /\ inbox' = InboxAfterSubscribe(inbox, role, cb)
    /\ got' = <<>>
    /\ UNCHANGED <<lock, message_history, priority_queue, event_callbacks,
                   tpc, cur, idx, ret, nCalls, nClears, publishLog,
                   invoked, lisAtAppend>>

\* add_event_listener(callback): takes no lock.
AddEventListener(t, cb) ==
    /\ tpc[t] = "idle"
    /\ UNCHANGED <<agentVars, regVars, coordVars>>
    /\ OpsDone < MaxOps
    /\ event_callbacks' = Append(event_callbacks, cb)
    /\ got' = <<>>
    /\ UNCHANGED <<lock, subscribers, message_history, priority_queue,
                   tpc, cur, idx, ret, nCalls, nClears, publishLog,
                   subscriptions, inbox, invoked, lisAtAppend>>

\* get_message_history(limit)
GetMessageHistory(t, lim) ==
    /\ tpc[t] = "idle"
    /\ UNCHANGED <<agentVars, regVars, coordVars>>
    /\ LockAvailable(lock)
    /\ got = <<>>
    /\ got' = <<GetHistory(message_history, lim)>>
    /\ UNCHANGED <<lock, subscribers, message_history, priority_queue, event_callbacks,
                   tpc, cur, idx, ret, nCalls, nClears, publishLog,
                   subscriptions, inbox, invoked, lisAtAppend>>

\* clear_history(); on an empty history it changes nothing.
ClearHistory(t) ==
    /\ tpc[t] = "idle"
    /\ UNCHANGED <<agentVars, regVars, coordVars>>
    /\ LockAvailable(lock)
    /\ message_history # <<>>
    /\ nClears' = nClears + 1
    /\ message_history' = <<>>
    /\ got' = <<>>
    /\ UNCHANGED <<lock, subscribers, priority_queue, event_callbacks,
                   tpc, cur, idx, ret, nCalls, publishLog, subscriptions,
                   inbox, invoked, lisAtAppend>>

NextBus ==
    \/ \E t \in Threads, mi \in MessageInputs : PublishCall(t, mi)
    \/ \E t \in Threads : PublishAcquire(t)
    \/ \E t \in Threads : PublishEnqueue(t)
    \/ \E t \in Threads : PublishAppend(t)
    \/ \E t \in Threads, raised \in BOOLEAN : NotifyListener(t, raised)
    \/ \E t \in Threads : ListenersDone(t)
    \/ \E t \in Threads, raised \in BOOLEAN : DeliverSubscriber(t, raised)
    \/ \E t \in Threads : PublishReturn(t)
    \/ \E t \in Threads, role \in Roles, cb \in Callbacks : Subscribe(t, role, cb)
    \/ \E t \in Threads, cb \in Listeners : AddEventListener(t, cb)
    \/ \E t \in Threads, lim \in Limits : GetMessageHistory(t, lim)
    \/ \E t \in Threads : ClearHistory(t)

\* ---------------------------------------------------------------- registry
MaxRegs == 3

\* The ToolProviders and what their get_tools() return, in order.
Providers == {"p1", "p2"}
get_tools(p) ==
    IF p = "p1"
      THEN <<ToolDefinition("get_location", "f1"), ToolDefinition("get_vitals", "f1")>>
      ELSE <<ToolDefinition("get_location", "f2"), ToolDefinition("get_location", "f1")>>

\* self.tools[tool.name] = tool
RegisteredKeepingFirst(reg, tool) ==
    [n \in DOMAIN reg \cup {tool.name} |-> IF n \in DOMAIN reg THEN reg[n] ELSE tool]
Registered(reg, tool) ==
    [n \in DOMAIN reg \cup {tool.name} |-> IF n = tool.name THEN tool ELSE reg[n]]

\* `for tool in provider.get_tools(): self.register_tool(tool)`
RECURSIVE RegisteredAll(_, _)
RegisteredAll(reg, defs) ==
    IF defs = <<>> THEN reg
    ELSE RegisteredAll(Registered(reg, Head(defs)), Tail(defs))

InitRegistry ==
    /\ tools = <<>>
    /\ providers = <<>>
    /\ result = <<>>
    /\ lastCall = <<>>
    /\ registered = <<>>

\* register_tool(tool)
RegisterTool(name, func) ==
    /\ Len(registered) < MaxRegs
    /\ tools' = Registered(tools, ToolDefinition(name, func))
    /\ registered' = Append(registered, ToolDefinition(name, func))
    /\ result' = <<>>
    /\ lastCall' = <<>>
    /\ UNCHANGED <<providers, agentVars, busVars, coordVars>>

\* register_function(name, func, description): builds the ToolDefinition and
\* hands it to register_tool.
RegisterFunction(name, func) ==
    /\ Len(registered) < MaxRegs
    /\ LET tool == ToolDefinition(name, func) IN
         /\ tools' = Registered(tools, tool)
         /\ registered' = Append(registered, tool)
    /\ result' = <<>>
    /\ lastCall' = <<>>
    /\ UNCHANGED <<providers, agentVars, busVars, coordVars>>

\* register_provider(provider)
RegisterProvider(p) ==
    /\ Len(registered) + Len(get_tools(p)) <= MaxRegs
    /\ providers' = Append(providers, p)
    /\ tools' = RegisteredAll(tools, get_tools(p))
    /\ registered' = registered \o get_tools(p)
    /\ result' = <<>>
    /\ lastCall' = <<>>
    /\ UNCHANGED <<agentVars, busVars, coordVars>>

\* ToolExecutor.execute(tool_name, args), the tool body returning or raising.
Execute(tool_name, body) ==
    /\ result = <<>>
    /\ result' = <<execute(tools, tool_name, body)>>
    /\ lastCall' = <<[tool_name |-> tool_name,
                    func |-> IF has_tool(tools, tool_name)
                               THEN <<tools[tool_name].func>> ELSE <<>>]>>
    /\ UNCHANGED <<tools, providers, registered, agentVars, busVars, coordVars>>

NextRegistry ==
    \/ \E name \in AvailableTools, func \in Funcs : RegisterTool(name, func)
    \/ \E name \in AvailableTools, func \in Funcs : RegisterFunction(name, func)
    \/ \E p \in Providers : RegisterProvider(p)
    \/ \E tool_name \in AvailableTools, body \in ToolBodies : Execute(tool_name, body)

\* ---------------------------------------------------------------- coordination
MaxCoordOps == 4
MaxEntries == 4

\* EventLogger._max_entries
max_entries == MaxEntries

\* What register_agent is handed as the agent: an agent object, or None.
Agents == {"agent", "None"}

\* `if recipient_agent:` on what self._agents.get(role) returned.
AgentTruthy(slot) == slot # <<>> /\ slot[1] # "None"

\* role.value.upper()
Upper(role) ==
    CASE role = "victim_assistant" -> "VICTIM_ASSISTANT"
      [] role = "operator" -> "OPERATOR"
      [] OTHER -> "SYSTEM"

\* EventLogger._get_log_level_for_message
LevelCriticalForEscalation(m) ==
    CASE m.message_type = "emergency_escalation" -> "CRITICAL"
      [] m.priority = CRITICAL -> "CRITICAL"
      [] m.priority = HIGH -> "WARNING"
      [] m.priority = MEDIUM -> "INFO"
      [] m.priority = LOW -> "DEBUG"
      [] OTHER -> "INFO"
get_log_level_for_message(m) ==
    CASE m.priority = CRITICAL -> "CRITICAL"
      [] m.priority = HIGH -> "WARNING"
      [] m.priority = MEDIUM -> "INFO"
      [] m.priority = LOW -> "DEBUG"
      [] OTHER -> "INFO"

\* EventLogger._format_message_for_log
format_message_for_log(m) ==
    CASE m.message_type = "situation_update" -> "Situation update: "
      [] m.message_type = "dispatch_update" -> "Dispatch update: "
      [] m.message_type = "status_update" -> "Status: "
      [] m.message_type = "emergency_escalation" -> "ESCALATION: "
      [] OTHER -> m.message_type

\* The LogEntry log_message(m) builds.
MessageEntry(m) ==
    [level |-> get_log_level_for_message(m),
     source |-> Upper(m.sender),
     message |-> format_message_for_log(m),
     metadata |-> [message_id |-> m.id, message_type |-> m.message_type,
                   priority |-> m.priority, recipient |-> m.recipient]]

\* The LogEntry log_event(level, source, message, metadata) builds.
EventEntry(level, source, message, metadata) ==
    [level |-> level, source |-> source, message |-> message, metadata |-> metadata]

\* EventLogger._add_entry: append, then drop the oldest entry when over the cap.
AddEntryResettingWhenFull(es, entry) ==
    IF Len(Append(es, entry)) > max_entries THEN <<entry>>
    ELSE Append(es, entry)
add_entry(es, entry) ==
    IF Len(Append(es, entry)) > max_entries THEN Tail(Append(es, entry))
    ELSE Append(es, entry)

\* The entry _handle_agent_message(m) logs.
HandlerEntry(m) ==
    IF AgentTruthy(agents[m.recipient])
      THEN EventEntry("INFO", "COORDINATION", <<"Message delivered to ", m.recipient>>,
                      [message_id |-> m.id, message_type |-> m.message_type])
      ELSE EventEntry("WARNING", "COORDINATION", <<"Recipient not found: ", m.recipient>>,
                      [message_id |-> m.id])

\* What the callables the coordination system hands to the bus log when they are
\* called with m: _log_message_event logs the message, _handle_agent_message
\* logs the delivery.
CallbackEntries(cb, m) ==
    CASE cb = "_log_message_event" -> <<MessageEntry(m)>>
      [] cb = "_handle_agent_message" -> <<HandlerEntry(m)>>
      [] OTHER -> <<>>

\* The listener loop followed by the subscriber loop of publish(m): the
\* callbacks it calls, in order.
HandlerBeforeListener(m) ==
    (IF m.recipient \in DOMAIN subscribers THEN subscribers[m.recipient] ELSE <<>>)
       \o event_callbacks
CallbacksOf(m) ==
    event_callbacks \o
       (IF m.recipient \in DOMAIN subscribers THEN subscribers[m.recipient] ELSE <<>>)

\* The entries a sequence of callbacks logs for m, in order.
RECURSIVE EntriesOf(_, _)
EntriesOf(cbs, m) ==
    IF cbs = <<>> THEN <<>>
    ELSE CallbackEntries(Head(cbs), m) \o EntriesOf(Tail(cbs), m)

\* _add_entry applied to each of new, in order.
RECURSIVE add_entries(_, _)
add_entries(es, new) ==
    IF new = <<>> THEN es
    ELSE add_entries(add_entry(es, Head(new)), Tail(new))

\* The send_message and register_agent calls made so far.
CoordOpsDone ==
    nCalls + Len(subscribers["victim_assistant"]) + Len(subscribers["operator"])
           + Len(subscribers["system"])

InitCoord ==
    /\ constructed = FALSE
    /\ agents = [r \in Roles |-> <<>>]
    /\ entries = <<>>
    /\ appended = <<>>
    /\ logged = <<>>
    /\ clearedAt = 0
    /\ toolReturn = <<>>

\* CoordinationSystem.__init__, reached through get_coordination_system().
CoordinationSystemInit ==
    /\ ~constructed
    /\ constructed' = TRUE
    /\ event_callbacks' = Append(event_callbacks, "_log_message_event")
    /\ appended' = <<>>
    /\ UNCHANGED <<agents, entries, logged, clearedAt, toolReturn>>
    /\ UNCHANGED <<lock, subscribers, message_history, priority_queue,
                   tpc, cur, idx, ret, nCalls, nClears, got, publishLog,
                   subscriptions, inbox, invoked, lisAtAppend>>
    /\ UNCHANGED <<agentVars, regVars>>

\* register_agent(role, agent)
RegisterAgent(role, agent) ==
    /\ constructed
    /\ CoordOpsDone < MaxCoordOps
    /\ agents' = [agents EXCEPT ![role] = <<agent>>]
    /\ LET e == EventEntry("INFO", "COORDINATION", <<"Agent registered: ", role>>,
                            [role |-> role])
       IN /\ entries' = add_entry(entries, e)
          /\ appended' = <<e>>
          /\ logged' = Append(logged, e)
    /\ subscribers' = [subscribers EXCEPT ![role] = Append(@, "_handle_agent_message")]
    /\ UNCHANGED <<constructed, clearedAt, toolReturn>>
    /\ UNCHANGED <<lock, message_history, priority_queue, event_callbacks,
                   tpc, cur, idx, ret, nCalls, nClears, got, publishLog,
                   subscriptions, inbox, invoked, lisAtAppend>>
    /\ UNCHANGED <<agentVars, regVars>>

\* What _handle_agent_message(m) does with the recipient agent it looked up,
\* whose conversation history is msgs: it logs, and calls nothing on the agent.
HandlerChatsWithAgent(msgs, m) == Append(msgs, Turn("user", m.message_type, chatNo))
handle_agent_message(msgs, m) == msgs

\* The recipient agent's conversation history once the callbacks cbs have been
\* called with m, in order.
RECURSIVE HistoryAfterCallbacks(_, _, _)
HistoryAfterCallbacks(cbs, m, msgs) ==
    IF cbs = <<>> THEN msgs
    ELSE HistoryAfterCallbacks(Tail(cbs), m,
            IF Head(cbs) = "_handle_agent_message" /\ AgentTruthy(agents[m.recipient])
              THEN handle_agent_message(msgs, m)
              ELSE msgs)

\* send_message(message): the whole of EmergencyMessageBus.publish, with the
\* callbacks of the coordination system run inside it.
SendMessage(mi) ==
    /\ constructed
    /\ CoordOpsDone < MaxCoordOps
    /\ LockAvailable(lock)
    /\ nCalls' = nCalls + 1
    /\ LET m == Message(nCalls + 1, mi) IN
         /\ priority_queue' = QueueAppended(priority_queue, m)
         /\ message_history' = HistoryAppended(message_history, m)
         /\ publishLog' = Append(publishLog, m)
         /\ appended' = EntriesOf(CallbacksOf(m), m)
         /\ entries' = add_entries(entries, EntriesOf(CallbacksOf(m), m))
         /\ logged' = logged \o EntriesOf(CallbacksOf(m), m)
         /\ messages' = HistoryAfterCallbacks(CallbacksOf(m), m, messages)
    /\ UNCHANGED <<constructed, agents, clearedAt, toolReturn>>
    /\ UNCHANGED <<lock, subscribers, event_callbacks, tpc, cur, idx, ret, nClears,
                   got, subscriptions, inbox, invoked, lisAtAppend>>
    /\ UNCHANGED <<max_iterations, hasExecutor, pc, iteration, called_tools,
                   executed_tools, response, propagated, chatNo, callTrace, execLog,
                   requested, stopReason, failed, outcomes, lastReply,
                   historyBefore>>
    /\ UNCHANGED regVars

NextCoord ==
    \/ CoordinationSystemInit
    \/ \E role \in Roles, agent \in Agents : RegisterAgent(role, agent)
    \/ \E mi \in MessageInputs : SendMessage(mi)

\* ---------------------------------------------------------------- re-entrant callbacks
\* A callback that, while publish() delivers to it, calls the same bus.
ReentrantCalls == {"publish", "subscribe", "get_message_history"}

\* The message a recipient sends back inline.
Reply(id, m) ==
    [id |-> id, sender |-> m.recipient, recipient |-> m.sender,
     priority |-> m.priority, message_type |-> "acknowledgment"]

\* The inboxes once each callback of cbs has been called with m.
RECURSIVE Delivered(_, _, _)
Delivered(ib, cbs, m) ==
    IF cbs = <<>> THEN ib
    ELSE Delivered([ib EXCEPT ![Head(cbs)] = Append(@, m)], Tail(cbs), m)

\* The callback publish() is about to call in its running for loop.
CallbackAt(t) ==
    IF tpc[t] = "listeners" THEN event_callbacks[idx[t]]
    ELSE SubscriberList(cur[t])[idx[t]]

\* One callback(message) of a for loop of publish() whose body calls op on
\* the bus.  The inner call starts with `with self._lock:` on the lock the
\* thread took at the top of publish(); if the lock can be taken the inner call
\* runs and the callback returns, otherwise the thread waits in acquire().
CallbackCallsBus(t, op) ==
    /\ tpc[t] \in {"listeners", "subscribers"}
    /\ idx[t] <= (IF tpc[t] = "listeners" THEN Len(event_callbacks)
                                         ELSE Len(SubscriberList(cur[t])))
    /\ op \in {"publish", "subscribe"} => OpsDone < MaxOps
    /\ UNCHANGED <<agentVars, regVars, coordVars>>
    /\ invoked' = [invoked EXCEPT ![t] =
                      Append(@, [kind |-> IF tpc[t] = "listeners" THEN "listener"
                                                                  ELSE "subscriber",
                                 cb |-> CallbackAt(t), raised |-> FALSE])]
    /\ nCalls' = IF op = "publish" THEN nCalls + 1 ELSE nCalls
    /\ LET received == IF tpc[t] = "subscribers"
                         THEN [inbox EXCEPT ![CallbackAt(t)] = Append(@, cur[t])]
                         ELSE inbox
           reply == Reply(nCalls + 1, cur[t])
       IN IF LockAvailable(lock)
            THEN /\ idx' = [idx EXCEPT ![t] = @ + 1]
                 /\ UNCHANGED <<tpc, lock, event_callbacks, cur, ret, nClears, lisAtAppend>>
                 /\ CASE op = "publish" ->
                           /\ priority_queue' = QueueAppended(priority_queue, reply)
                           /\ message_history' = HistoryAppended(message_history, reply)
                           /\ publishLog' = Append(publishLog, reply)
                           /\ inbox' = Delivered(received, SubscriberList(reply), reply)
                           /\ got' = <<>>
                           /\ UNCHANGED <<subscribers, subscriptions>>
                      [] op = "subscribe" ->
                           /\ subscribers' = [subscribers EXCEPT ![cur[t].recipient] =
                                                 Append(@, CallbackAt(t))]
                           /\ subscriptions' = Append(subscriptions,
                                 [cb |-> CallbackAt(t), role |-> cur[t].recipient,
                                  at |-> Len(publishLog)])
                           /\ inbox' = received
                           /\ got' = <<>>
                           /\ UNCHANGED <<priority_queue, message_history, publishLog>>
                      [] OTHER ->
                           /\ got' = <<GetHistory(message_history, <<>>)>>
                           /\ inbox' = received
                           /\ UNCHANGED <<priority_queue, message_history, publishLog,
                                          subscribers, subscriptions>>
            ELSE /\ tpc' = [tpc EXCEPT ![t] = "blocked"]
                 /\ inbox' = received
                 /\ got' = <<>>
                 /\ UNCHANGED <<lock, subscribers, message_history, priority_queue,
                                event_callbacks, cur, idx, ret, nClears, publishLog,
                                subscriptions, lisAtAppend>>

NextReentrant ==
    \/ \E t \in Threads, mi \in MessageInputs : PublishCall(t, mi)
    \/ \E t \in Threads : PublishAcquire(t)
    \/ \E t \in Threads : PublishEnqueue(t)
    \/ \E t \in Threads : PublishAppend(t)
    \/ \E t \in Threads, raised \in BOOLEAN : NotifyListener(t, raised)
    \/ \E t \in Threads : ListenersDone(t)
    \/ \E t \in Threads, raised \in BOOLEAN : DeliverSubscriber(t, raised)
    \/ \E t \in Threads, op \in ReentrantCalls : CallbackCallsBus(t, op)
    \/ \E t \in Threads : PublishReturn(t)
    \/ \E t \in Threads, role \in Roles, cb \in Callbacks : Subscribe(t, role, cb)
    \/ \E t \in Threads, cb \in Listeners : AddEventListener(t, cb)

\* The steps of thread t inside a publish() call it has made.
PublishStep(t) ==
    \/ PublishAcquire(t)
    \/ PublishEnqueue(t)
    \/ PublishAppend(t)
    \/ \E raised \in BOOLEAN : NotifyListener(t, raised)
    \/ ListenersDone(t)
    \/ \E raised \in BOOLEAN : DeliverSubscriber(t, raised)
    \/ \E op \in ReentrantCalls : CallbackCallsBus(t, op)
    \/ PublishReturn(t)

\* ---------------------------------------------------------------- threads
\* The coordination system used from several threads: register_agent and
\* publish step by step, with EventLogger._add_entry as two steps (the append,
\* then the length test and the pop).  A thread's position is tpc[t]; in a
\* register_agent call cur[t] carries the role argument in its recipient field.
MaxRegCalls == 1

\* The roles create_agent registers an agent object for.
FactoryRoles == {"operator", "victim_assistant"}

\* The positions of a thread that is inside EventLogger._add_entry: it has
\* appended its entry and has not yet tested the length.
InAddEntry == {"reg_trim", "lis_trim", "sub_trim"}

\* register_agent calls made so far.
RegCallsDone ==
    Len(subscribers["victim_assistant"]) + Len(subscribers["operator"])
       + Len(subscribers["system"])
       + Cardinality({t \in Threads : tpc[t] \in {"reg_trim", "reg_sub"}})

\* The rest of _add_entry after the append.
trim_entries(es) == IF Len(es) > max_entries THEN Tail(es) ELSE es

\* register_agent(role, agent) up to the append inside _add_entry:
\* self._agents[role] = agent, log_event builds the entry, _add_entry appends it.
RegisterAgentCall(t, role, agent) ==
    /\ constructed
    /\ tpc[t] = "idle"
    /\ RegCallsDone < MaxRegCalls
    /\ agents' = [agents EXCEPT ![role] = <<agent>>]
    /\ LET e == EventEntry("INFO", "COORDINATION", <<"Agent registered: ", role>>,
                            [role |-> role])
       IN /\ entries' = Append(entries, e)
          /\ appended' = <<e>>
          /\ logged' = Append(logged, e)
    /\ cur' = [cur EXCEPT ![t] = [NoMessage EXCEPT !.recipient = role]]
    /\ tpc' = [tpc EXCEPT ![t] = "reg_trim"]
    /\ UNCHANGED <<constructed, clearedAt, toolReturn>>
    /\ UNCHANGED <<lock, subscribers, message_history, priority_queue, event_callbacks,
                   idx, ret, nCalls, nClears, got, publishLog,
                   subscriptions, inbox, invoked, lisAtAppend>>
    /\ UNCHANGED <<agentVars, regVars>>

\* _log_message_event(message), called by the listener loop of publish, up to
\* the append inside _add_entry.
ListenerLogs(t) ==
    /\ tpc[t] = "listeners"
    /\ idx[t] <= Len(event_callbacks)
    /\ entries' = Append(entries, MessageEntry(cur[t]))
    /\ appended' = <<MessageEntry(cur[t])>>
    /\ logged' = Append(logged, MessageEntry(cur[t]))
    /\ tpc' = [tpc EXCEPT ![t] = "lis_trim"]
    /\ UNCHANGED <<constructed, agents, clearedAt, toolReturn>>
    /\ UNCHANGED <<lock, subscribers, message_history, priority_queue, event_callbacks,
                   cur, idx, ret, nCalls, nClears, got, publishLog,
                   subscriptions, inbox, invoked, lisAtAppend>>
    /\ UNCHANGED <<agentVars, regVars>>

\* _handle_agent_message(message), called by the subscriber loop of publish,
\* up to the append inside _add_entry.
HandlerLogs(t) ==
    /\ tpc[t] = "subscribers"
    /\ idx[t] <= Len(SubscriberList(cur[t]))
    /\ entries' = Append(entries, HandlerEntry(cur[t]))
    /\ appended' = <<HandlerEntry(cur[t])>>
    /\ logged' = Append(logged, HandlerEntry(cur[t]))
    /\ tpc' = [tpc EXCEPT ![t] = "sub_trim"]
    /\ UNCHANGED <<constructed, agents, clearedAt, toolReturn>>
    /\ UNCHANGED <<lock, subscribers, message_history, priority_queue, event_callbacks,
                   cur, idx, ret, nCalls, nClears, got, publishLog,
                   subscriptions, inbox, invoked, lisAtAppend>>
    /\ UNCHANGED <<agentVars, regVars>>

\* The end of _add_entry: `if len(self._entries) > self._max_entries: pop(0)`,
\* and the return to the caller.
AddEntryTrim(t) ==
    /\ tpc[t] \in InAddEntry
    /\ entries' = trim_entries(entries)
    /\ tpc' = [tpc EXCEPT ![t] = CASE tpc[t] = "reg_trim" -> "reg_sub"
                                   [] tpc[t] = "lis_trim" -> "listeners"
                                   [] OTHER -> "subscribers"]
    /\ idx' = [idx EXCEPT ![t] = IF tpc[t] = "reg_trim" THEN @ ELSE @ + 1]
    /\ UNCHANGED <<constructed, agents, appended, logged, clearedAt, toolReturn>>
    /\ UNCHANGED <<lock, subscribers, message_history, priority_queue, event_callbacks,
                   cur, ret, nCalls, nClears, got, publishLog,
                   subscriptions, inbox, invoked, lisAtAppend>>
    /\ UNCHANGED <<agentVars, regVars>>

\* The last statement of register_agent:
\* self._message_bus.subscribe(role, self._handle_agent_message).
RegisterSubscribe(t) ==
    /\ tpc[t] = "reg_sub"
    /\ LockAvailable(lock)
    /\ subscribers' = [subscribers EXCEPT ![cur[t].recipient] =
                          Append(@, "_handle_agent_message")]
    /\ cur' = [cur EXCEPT ![t] = NoMessage]
    /\ tpc' = [tpc EXCEPT ![t] = "idle"]
    /\ UNCHANGED <<lock, message_history, priority_queue, event_callbacks,
                   idx, ret, nCalls, nClears, got, publishLog,
                   subscriptions, inbox, invoked, lisAtAppend>>
    /\ UNCHANGED <<agentVars, regVars, coordVars>>

NextThreads ==
    \/ CoordinationSystemInit
    \/ \E t \in Threads, role \in FactoryRoles : RegisterAgentCall(t, role, "agent")
    \/ \E t \in Threads : RegisterSubscribe(t)
    \/ \E t \in Threads, mi \in MessageInputs : PublishCall(t, mi)
    \/ \E t \in Threads : PublishAcquire(t)
    \/ \E t \in Threads : PublishEnqueue(t)
    \/ \E t \in Threads : PublishAppend(t)
    \/ \E t \in Threads : ListenerLogs(t)
    \/ \E t \in Threads : ListenersDone(t)
    \/ \E t \in Threads : HandlerLogs(t)
    \/ \E t \in Threads : AddEntryTrim(t)
    \/ \E t \in Threads : PublishReturn(t)

\* ---------------------------------------------------------------- event logger
MaxLogOps == 5
MaxLogMsgs == 1

\* MessageType
MessageTypes == {"situation_update", "dispatch_update", "status_update",
                 "emergency_escalation", "coordination_request", "acknowledgment"}

\* The messages log_message is handed: every type at every priority.
LoggedMessages ==
    {[sender |-> "victim_assistant", recipient |-> "operator", priority |-> p,
      message_type |-> t] : p \in Priorities, t \in MessageTypes}

\* The levels log_event is called with.
EventLevels == {"INFO", "ERROR"}

\* The log_message calls made so far: their entries carry a message_type.
LogMessagesDone ==
    Cardinality({i \in 1..Len(logged) : "message_type" \in DOMAIN logged[i].metadata})

\* EventLogger.log_message(message)
LogMessage(mi) ==
    /\ Len(logged) < MaxLogOps
    /\ LogMessagesDone < MaxLogMsgs
    /\ LET e == MessageEntry(Message(Len(logged) + 1, mi)) IN
         /\ entries' = add_entry(entries, e)
         /\ appended' = <<e>>
         /\ logged' = Append(logged, e)
    /\ UNCHANGED <<constructed, agents, clearedAt, toolReturn>>
    /\ UNCHANGED <<agentVars, busVars, regVars>>

\* EventLogger.log_event(level, source, message, metadata)
LogEvent(level) ==
    /\ Len(logged) < MaxLogOps
    /\ LET e == EventEntry(level, "SYSTEM", "event", [seq |-> Len(logged) + 1]) IN
         /\ entries' = add_entry(entries, e)
         /\ appended' = <<e>>
         /\ logged' = Append(logged, e)
    /\ UNCHANGED <<constructed, agents, clearedAt, toolReturn>>
    /\ UNCHANGED <<agentVars, busVars, regVars>>

\* EventLogger.clear()
LoggerClear ==
    /\ entries' = <<>>
    /\ appended' = <<>>
    /\ clearedAt' = Len(logged)
    /\ UNCHANGED <<constructed, agents, logged, toolReturn>>
    /\ UNCHANGED <<agentVars, busVars, regVars>>

NextLogger ==
    \/ \E mi \in LoggedMessages : LogMessage(mi)
    \/ \E level \in EventLevels : LogEvent(level)
    \/ LoggerClear

\* ---------------------------------------------------------------- communication tools
MaxToolCalls == 3

\* victim_communication_tools and operator_communication_tools
CommunicationTools ==
    {"send_situation_update", "request_emergency_escalation",
     "send_victim_status_update", "send_dispatch_update", "send_operator_status"}

\* What a tool is called with: its text argument (situation_description,
\* escalation_reason, status, dispatch_status), a string or not, and for
\* send_situation_update the priority argument.
ToolInputs ==
    {[tool |-> "send_situation_update", text |-> x, priority |-> p] :
        x \in {"fire", "<number>"}, p \in {"HIGH", "low", "urgent"}}
    \cup {[tool |-> t, text |-> x, priority |-> ""] :
            t \in CommunicationTools \ {"send_situation_update"},
            x \in {"fire", "<number>"}}

\* Priority[priority.upper()], Priority.HIGH on KeyError or AttributeError.
ParsePriority(p) ==
    CASE p \in {"CRITICAL", "critical"} -> CRITICAL
      [] p \in {"HIGH", "high"} -> HIGH
      [] p \in {"MEDIUM", "medium"} -> MEDIUM
      [] p \in {"LOW", "low"} -> LOW
      [] OTHER -> HIGH

\* The message each tool constructs.
StatusUpdateWithDefaults(in) ==
    CASE in.tool = "send_situation_update" ->
           [sender |-> "victim_assistant", recipient |-> "operator",
            priority |-> ParsePriority(in.priority), message_type |-> "situation_update"]
      [] in.tool = "request_emergency_escalation" ->
           [sender |-> "victim_assistant", recipient |-> "operator",
            priority |-> CRITICAL, message_type |-> "emergency_escalation"]
      [] in.tool = "send_dispatch_update" ->
           [sender |-> "operator", recipient |-> "victim_assistant",
            priority |-> HIGH, message_type |-> "dispatch_update"]
      [] OTHER ->
           [sender |-> "system", recipient |-> "system",
            priority |-> MEDIUM, message_type |-> "status_update"]
ToolMessage(in) ==
    CASE in.tool = "send_situation_update" ->
           [sender |-> "victim_assistant", recipient |-> "operator",
            priority |-> ParsePriority(in.priority), message_type |-> "situation_update"]
      [] in.tool = "request_emergency_escalation" ->
           [sender |-> "victim_assistant", recipient |-> "operator",
            priority |-> CRITICAL, message_type |-> "emergency_escalation"]
      [] in.tool = "send_victim_status_update" ->
           [sender |-> "victim_assistant", recipient |-> "operator",
            priority |-> MEDIUM, message_type |-> "status_update"]
      [] in.tool = "send_dispatch_update" ->
           [sender |-> "operator", recipient |-> "victim_assistant",
            priority |-> HIGH, message_type |-> "dispatch_update"]
      [] in.tool = "send_operator_status" ->
           [sender |-> "operator", recipient |-> "victim_assistant",
            priority |-> MEDIUM, message_type |-> "status_update"]

\* The key each tool's confirmation echoes next to success and message_id.
EchoKey(tool) ==
    CASE tool = "send_situation_update" -> "sent_to"
      [] tool = "request_emergency_escalation" -> "escalation_sent"
      [] tool = "send_victim_status_update" -> "status_sent"
      [] tool = "send_dispatch_update" -> "dispatch_update_sent"
      [] tool = "send_operator_status" -> "operator_status_sent"

\* Building the confirmation raises TypeError inside the try block when the
\* text argument is sliced ([:50]) and is not a string; send_dispatch_update
\* only formats its arguments.
ConfirmationRaises(in) == in.tool # "send_dispatch_update" /\ in.text = "<number>"

\* What the tool returns once publish(m) has returned.
ToolConfirmation(in, m) ==
    IF ConfirmationRaises(in)
      THEN [success |-> FALSE, error |-> <<"Failed to send", in.tool, "TypeError">>]
      ELSE [success |-> TRUE, message_id |-> m.id, echo |-> EchoKey(in.tool)]

\* One call of a communication tool: construct the message, publish it on the
\* global bus, return the confirmation.
ToolCall(in) ==
    /\ nCalls < MaxToolCalls
    /\ LockAvailable(lock)
    /\ nCalls' = nCalls + 1
    /\ LET m == Message(nCalls + 1, ToolMessage(in)) IN
         /\ priority_queue' = QueueAppended(priority_queue, m)
         /\ message_history' = HistoryAppended(message_history, m)
         /\ publishLog' = Append(publishLog, m)
         /\ appended' = EntriesOf(CallbacksOf(m), m)
         /\ entries' = add_entries(entries, EntriesOf(CallbacksOf(m), m))
         /\ logged' = logged \o EntriesOf(CallbacksOf(m), m)
         /\ toolReturn' = <<ToolConfirmation(in, m)>>
    /\ UNCHANGED <<constructed, agents, clearedAt>>
    /\ UNCHANGED <<lock, subscribers, event_callbacks, tpc, cur, idx, ret, nClears,
                   got, subscriptions, inbox, invoked, lisAtAppend>>
    /\ UNCHANGED <<agentVars, regVars>>

NextTools ==
    \/ CoordinationSystemInit
    \/ \E in \in ToolInputs : ToolCall(in)

\* ---------------------------------------------------------------- specifications
\* The agent alone: the bus stays as constructed.
Init == InitAgent /\ InitBus /\ InitRegistry /\ InitCoord
SpecAgent == Init /\ [][NextAgent]_vars

\* The agent under the assumption that every model call and every tool call
\* returns or raises: a chat() that has begun keeps taking its next step.
ChatStep ==
    \/ \E call \in ModelCalls : \E outcome \in ExecOutcomesOf(call) :
          ReasoningRound(call, outcome)
    \/ LoopExhausted
    \/ \E reply \in FinalReplies : FinalAnswer(reply)
    \/ \E reply \in FinalReplies : SimpleResponse(reply)
SpecAgentLive == Init /\ [][NextAgent]_vars /\ WF_vars(ChatStep)

\* The bus alone: one agent is constructed and never chats.
InitBusAlone ==
    /\ InitAgent /\ InitBus /\ InitRegistry /\ InitCoord
    /\ max_iterations = MaxIter /\ hasExecutor = TRUE
SpecBus == InitBusAlone /\ [][NextBus]_vars

\* The registry and its executor alone.
SpecRegistry == InitBusAlone /\ [][NextRegistry]_vars

\* The coordination system on its bus, calls made one at a time.
SpecCoord == InitBusAlone /\ [][NextCoord]_vars

\* The event logger alone.
SpecLogger == InitBusAlone /\ [][NextLogger]_vars

\* The communication tools on the global bus, calls made one at a time.
SpecTools == InitBusAlone /\ [][NextTools]_vars

\* The coordination system called from two threads.
SpecThreads == InitBusAlone /\ [][NextThreads]_vars

\* The bus with callbacks that call it back; every thread that can take a step
\* of its publish() call is scheduled, and every callback returns or blocks.
SpecReentrant ==
    InitBusAlone /\ [][NextReentrant]_vars /\ \A t \in Threads : WF_vars(PublishStep(t))

\* ---------------------------------------------------------------- agent claims
Count(s, x) == Cardinality({i \in 1..Len(s) : s[i] = x})

\* The current chat() has returned to its caller (or left by an exception).
ChatOver == pc = "idle" /\ chatNo > 0

\* C1: within one chat() call every tool name is handed to the executor at most
\* once, however often the model asks for it.
C1_ToolExecutedAtMostOnce ==
    \A t \in ActionValues : Count(execLog, t) <= 1

\* C1 witness: the model asked twice for a tool and it ran once.
C1_Witness ==
    \E t \in AvailableTools : Count(requested, t) = 2 /\ Count(execLog, t) = 1

\* C2: a chat() call makes at most max_iterations reasoning-round model calls, all
\* of them before the finalization call, hence at most max_iterations + 1 calls.
C2_RoundsBounded ==
    /\ Count(callTrace, "round") <= max_iterations
    /\ Len(callTrace) <= max_iterations + 1
    /\ \A i, j \in 1..Len(callTrace) :
          callTrace[i] = "final" /\ callTrace[j] = "round" => j < i

\* C2 witness: the loop ran to the cap and the finalization call followed.
C2_Witness ==
    /\ max_iterations = MaxIter
    /\ stopReason = "cap"
    /\ Count(callTrace, "round") = MaxIter
    /\ Last(callTrace) = "final"

\* C3: once the reasoning loop has stopped, for whatever reason, the final-answer
\* call is issued exactly once and after every reasoning round; a tool round
\* followed by a none round gives one execution, two rounds, one final call.
C3_FinalCallExactlyOnce ==
    /\ stopReason # "" /\ pc = "final" => Count(callTrace, "final") = 0
    /\ stopReason # "" /\ pc = "idle" =>
          /\ Count(callTrace, "final") = 1
          /\ Last(callTrace) = "final"
          /\ \A i \in 1..(Len(callTrace) - 1) : callTrace[i] = "round"
    /\ \A t \in AvailableTools :
          requested = <<t, "none">> /\ pc = "idle" =>
             /\ execLog = <<t>>
             /\ callTrace = <<"round", "round", "final">>

\* C3 witness: the tool-then-none turn has finished and executed nothing else; and
\* a chat() that executed no tool has made its final call.
C3_Witness ==
    /\ pc = "idle"
    /\ requested = <<"get_location", "none">>
    /\ execLog = <<"get_location">>
    /\ failed = ""

\* C4: when processing inside chat(u) raised, the history after chat() returns
\* holds no user turn appended by that call.
C4_RollbackRemovesUserTurn ==
    ChatOver /\ failed # "" =>
       \A i \in 1..Len(messages) :
          ~(messages[i].role = "user" /\ messages[i].call = chatNo)

\* C5: chat() never lets an exception out; it returns an AgentResponse, and when
\* processing failed the response lists no executed tools and carries an error.
C5_ChatNeverRaises ==
    /\ ~propagated
    /\ ChatOver =>
          /\ Len(response) = 1
          /\ failed # "" =>
                /\ response[1].tools_executed = <<>>
                /\ "error" \in DOMAIN response[1].metadata

\* C5 witness: processing failed after a tool had been executed.
C5_Witness ==
    ChatOver /\ failed # "" /\ execLog # <<>> /\ Len(response) = 1

\* The last round of the current chat() asked for a tool that an earlier round of
\* the same loop had asked for, or for a tool the executor does not know.
RefusedRound ==
    /\ hasExecutor
    /\ requested # <<>>
    /\ ~ActionIsNone(Last(requested))
    /\ ~ActionLowerRaises(Last(requested))
    /\ \/ Last(requested) \notin AvailableTools
       \/ Count(Front(requested), Last(requested)) > 0

\* C11: when the model asks for a tool already invoked in this loop, or for a tool
\* the executor does not know, the loop stops: that round executes nothing, no
\* further reasoning-round model call is made, and the next model call is the
\* finalization call.
C11_RefusedToolStopsLoop ==
    RefusedRound =>
       /\ stopReason \in {"duplicate", "unknown"}
       /\ pc \in {"final", "idle"}
       /\ execLog = Front(requested)
       /\ Count(callTrace, "round") = Len(requested)
       /\ \A i \in 1..Len(requested) : callTrace[i] = "round"
       /\ Len(callTrace) \in {Len(requested), Len(requested) + 1}
       /\ Len(callTrace) = Len(requested) + 1 => Last(callTrace) = "final"
       /\ pc = "idle" => Last(callTrace) = "final"

\* C11 witness: a tool ran, the model asked for it again, and the call that
\* followed the refused round was the finalization call.
C11_Witness ==
    /\ requested = <<"get_vitals", "get_vitals">>
    /\ execLog = <<"get_vitals">>
    /\ stopReason = "duplicate"
    /\ callTrace = <<"round", "round", "final">>

\* C12: when the model asks for an unregistered tool x, the executor's error
\* envelope (status error, message "Tool 'x' not found") is appended to the
\* history as a turn of this chat(), and the loop then stops.
C12_UnknownToolErrorInHistory ==
    hasExecutor /\ stopReason = "unknown" /\ pc = "final" =>
       \E i \in 1..Len(messages) :
          /\ messages[i].role = "system"
          /\ messages[i].call = chatNo
          /\ messages[i].content =
                ToolResultContent(execute(AgentTools, Last(requested), "returns"))

\* C13: when the body of a registered tool raises, execute() returns an error
\* envelope: that round appends the invocation to executed_tools, appends the
\* envelope as a system turn, adds the tool to called_tools and goes on to the
\* next reasoning round; chat() does not fail.
C13_ToolErrorFedBack ==
    [][Len(outcomes') = Len(outcomes) + 1 /\ Last(outcomes') = "error" =>
         LET a == Last(execLog')
             envelope == [status |-> "error",
                          message |-> <<"Tool execution failed: ", AgentTools[a].func>>,
                          tool |-> a]
         IN /\ executed_tools' = Append(executed_tools, [tool |-> a, result |-> envelope])
            /\ messages' = Append(messages,
                                  Turn("system", <<"Tool result: ", envelope>>, chatNo))
            /\ called_tools' = called_tools \cup {a}
            /\ pc' = "loop"
            /\ failed' = ""
            /\ response' = response]_vars

\* C13 witness: a tool body raised in the first round, and the loop went on to a
\* second round that ran another tool.
C13_Witness ==
    /\ outcomes = <<"error", "success">>
    /\ Len(executed_tools) = 2
    /\ executed_tools[1].result.status = "error"
    /\ failed = ""
    /\ pc = "loop"

\* ---------------------------------------------------------------- registry claims
\* C14: on every path of execute (tool not found, tool returns, tool raises) the
\* result has one shape: a status of success or error, a data payload or an
\* error message, and the name of the tool that was asked for.
C14_UniformEnvelope ==
    result # <<>> =>
       /\ "status" \in DOMAIN result[1]
       /\ result[1].status \in {"success", "error"}
       /\ "data" \in DOMAIN result[1] \/ "message" \in DOMAIN result[1]
       /\ "tool" \in DOMAIN result[1]
       /\ result[1].tool = lastCall[1].tool_name

\* The definition most recently handed to register_tool under a name.
LatestRegistered(name) ==
    registered[CHOOSE i \in 1..Len(registered) :
                  /\ registered[i].name = name
                  /\ \A j \in (i + 1)..Len(registered) : registered[j].name # name]

\* C15: after any sequence of register_tool / register_function /
\* register_provider calls the registry holds one definition per registered
\* name, the one registered last under that name, and execute(name) invokes the
\* func of that definition.
C15_LatestRegistrationWins ==
    /\ DOMAIN tools = {registered[i].name : i \in 1..Len(registered)}
    /\ \A name \in DOMAIN tools : tools[name] = LatestRegistered(name)
    /\ lastCall # <<>> /\ lastCall[1].tool_name \in DOMAIN tools =>
          /\ lastCall[1].func = <<LatestRegistered(lastCall[1].tool_name).func>>
          /\ result[1].status = "success" =>
                result[1].data = <<"result of", LatestRegistered(lastCall[1].tool_name).func>>

\* C15 witness: a name registered with one func by a provider and then again
\* with another func has been executed, and the second func ran.
C15_Witness ==
    /\ Len(providers) = 1
    /\ Len(registered) = 3
    /\ registered[1] = ToolDefinition("get_location", "f1")
    /\ registered[3] = ToolDefinition("get_location", "f2")
    /\ lastCall = <<[tool_name |-> "get_location", func |-> <<"f2">>]>>
    /\ result[1].status = "success"

\* ---------------------------------------------------------------- bus claims
IsPrefix(a, b) == Len(a) <= Len(b) /\ SubSeq(b, 1, Len(a)) = a

\* Threads whose publish() call has not appended its message yet.
Pending == {t \in Threads : tpc[t] \in {"acquire", "enqueue", "append"}}

\* Threads whose publish() call has appended its message and is delivering it.
Delivering == {t \in Threads : tpc[t] \in {"listeners", "subscribers"}}

\* The publish() call of t has run both loops and is about to return.
AboutToReturn(t) ==
    tpc[t] = "subscribers" /\ idx[t] > Len(SubscriberList(cur[t]))

\* C6: with publish() calls interleaved across threads (and no clear_history),
\* the history holds exactly one entry per publish call that got to its append,
\* none lost and none twice; and when publish(m) returns, get_message_history()
\* has m as its last element.
C6_HistoryCountsPublishes ==
    /\ [](nClears = 0 =>
            /\ Len(message_history) = nCalls - Cardinality(Pending)
            /\ \A k \in 1..nCalls :
                  Cardinality({i \in 1..Len(message_history) : message_history[i].id = k})
                     = IF \E t \in Pending : cur[t].id = k THEN 0 ELSE 1)
    /\ [][\A t \in Threads :
            tpc[t] = "subscribers" /\ tpc'[t] = "idle" =>
               /\ GetHistory(message_history', <<>>) # <<>>
               /\ Last(GetHistory(message_history', <<>>)) = cur[t]]_vars

\* C6 witness: a second publish of one thread is delivering while the other
\* thread's publish waits for the lock.
C6_Witness ==
    /\ tpc["T1"] = "subscribers"
    /\ tpc["T2"] = "acquire"
    /\ nCalls = 3
    /\ Len(message_history) = 2
    /\ nClears = 0

\* What callback cb must have received, as a subscriber, of the first n messages
\* ever appended: each message once per subscription of cb to its recipient role
\* made before the message was published, in publish order.
RECURSIVE ExpectedInbox(_, _)
ExpectedInbox(cb, n) ==
    IF n = 0 THEN <<>>
    ELSE LET m == publishLog[n]
             k == Cardinality({i \in 1..Len(subscriptions) :
                                 /\ subscriptions[i].cb = cb
                                 /\ subscriptions[i].role = m.recipient
                                 /\ subscriptions[i].at < n})
         IN ExpectedInbox(cb, n - 1) \o [j \in 1..k |-> m]

C8_RaisingCallbackDoesNotAbort ==
    \A t \in Threads :
       /\ ret[t] \in {"", "True"}
       /\ AboutToReturn(t) =>
             LET lis == SelectSeq(invoked[t], LAMBDA e : e.kind = "listener")
                 sub == SelectSeq(invoked[t], LAMBDA e : e.kind = "subscriber")
             IN /\ \E i \in 1..Len(message_history) : message_history[i] = cur[t]
                /\ Len(lis) >= lisAtAppend[t]
                /\ \A i \in 1..lisAtAppend[t] : lis[i].cb = event_callbacks[i]
                /\ Len(sub) = Len(SubscriberList(cur[t]))
                /\ \A i \in 1..Len(sub) : sub[i].cb = SubscriberList(cur[t])[i]

\* C8 witness: a callback raised, a later one was still invoked, and publish is
\* about to return.
C8_Witness ==
    \E t \in Threads :
       /\ AboutToReturn(t)
       /\ Len(invoked[t]) >= 2
       /\ invoked[t][1].raised
       /\ invoked[t][1].kind = "listener"
       /\ invoked[t][2].kind = "subscriber"

\* C9: publish is atomic among publishers: while one thread is between entering
\* the lock and returning (queueing, appending, delivering), no other thread is,
\* and the thread that is holds the lock.
C9_PublishIsAtomic ==
    \A t1, t2 \in Threads :
       tpc[t1] \in {"enqueue", "append", "listeners", "subscribers"} =>
          /\ lock = t1
          /\ t2 # t1 => tpc[t2] \in {"idle", "acquire"}

\* C9 witness: one thread has appended its message and still has a subscriber to
\* deliver it to, while the other has called publish and waits for the lock.
C9_Witness ==
    /\ tpc["T1"] = "subscribers"
    /\ ~AboutToReturn("T1")
    /\ tpc["T2"] = "acquire"
    /\ lock = "T1"

\* C10 as claimed: no bus operation ever shortens the history or moves a message.
C10_HistoryNeverShrinks ==
    [][IsPrefix(message_history, message_history')]_vars

\* C10 amended: every bus operation other than clear_history() keeps the messages
\* already in the history at their positions; clear_history() empties it.
C10_AppendOnlyExceptClear ==
    [][IF nClears' # nClears
         THEN message_history' = <<>>
         ELSE IsPrefix(message_history, message_history')]_vars

\* C10 witness: a message published before a clear_history() is gone and one
\* published after it is in the history.
C10_Witness ==
    /\ nClears = 1
    /\ Len(message_history) = 1
    /\ Len(publishLog) = 2

\* C16: after any sequence of publishes (no clear_history), whenever a reader can
\* take the lock, get_priority_messages(p) is the subsequence of the history
\* whose priority is p, in history order, so the bucket sizes sum to the history
\* length; the history is in append order and every subscriber has received its
\* messages in that order.
C16_BucketsMirrorHistory ==
    nClears = 0 /\ lock = "free" =>
       /\ \A p \in Priorities :
             get_priority_messages(priority_queue, p)
                = SelectSeq(message_history, LAMBDA m : m.priority = p)
       /\ Len(get_priority_messages(priority_queue, CRITICAL))
            + Len(get_priority_messages(priority_queue, HIGH))
            + Len(get_priority_messages(priority_queue, MEDIUM))
            + Len(get_priority_messages(priority_queue, LOW)) = Len(message_history)
       /\ GetHistory(message_history, <<>>) = publishLog
       /\ \A cb \in Callbacks : inbox[cb] = ExpectedInbox(cb, Len(publishLog))

\* C16 witness: a high, a critical and another high message were published in
\* that order; the high bucket holds two messages.
C16_Witness ==
    /\ nClears = 0
    /\ lock = "free"
    /\ Len(message_history) = 3
    /\ message_history[2].priority = CRITICAL
    /\ Len(get_priority_messages(priority_queue, HIGH)) = 2

Min(a, b) == IF a < b THEN a ELSE b

\* The last k elements of h.
LastN(h, k) == SubSeq(h, Len(h) - k + 1, Len(h))

\* C17: for a history of n messages, get_message_history(limit) returns the last
\* min(limit, n) messages in history order for every limit >= 0, and all n
\* messages when no limit is given.
C17_LimitReturnsLastMin ==
    \A lim \in Limits :
       GetHistory(message_history, lim)
          = LastN(message_history,
                  IF lim = <<>> THEN Len(message_history)
                  ELSE Min(lim[1], Len(message_history)))

\* C18: delivery is synchronous: the step by which publish(m) returns is taken
\* only when every listener registered when m was appended and every subscriber
\* of m.recipient has been invoked with m; and a callback is invoked only by a
\* thread that is inside publish, holds the lock and has not returned.
C18_DeliveryIsSynchronous ==
    [][\A t \in Threads :
         /\ tpc[t] = "subscribers" /\ tpc'[t] = "idle" =>
               LET lis == SelectSeq(invoked[t], LAMBDA e : e.kind = "listener")
                   sub == SelectSeq(invoked[t], LAMBDA e : e.kind = "subscriber")
               IN /\ ret'[t] = "True"
                  /\ Len(lis) >= lisAtAppend[t]
                  /\ \A i \in 1..lisAtAppend[t] : lis[i].cb = event_callbacks[i]
                  /\ Len(sub) = Len(subscribers[cur[t].recipient])
                  /\ \A i \in 1..Len(sub) : sub[i].cb = subscribers[cur[t].recipient][i]
         /\ Len(invoked'[t]) > Len(invoked[t]) =>
               /\ tpc[t] \in {"listeners", "subscribers"}
               /\ lock = t
               /\ ret[t] = ""
               /\ \E i \in 1..Len(message_history) : message_history[i] = cur[t]
         /\ \A cb \in Callbacks :
               inbox'[cb] # inbox[cb] =>
                  \E u \in Threads :
                     /\ tpc[u] = "subscribers" /\ lock = u
                     /\ inbox'[cb] = Append(inbox[cb], cur[u])]_vars

\* C18 witness: publish is about to return after invoking a listener and a
\* subscriber.
C18_Witness ==
    \E t \in Threads :
       /\ AboutToReturn(t)
       /\ Len(invoked[t]) = 2
       /\ invoked[t][1].kind = "listener"
       /\ invoked[t][2].kind = "subscriber"
       /\ ~invoked[t][1].raised /\ ~invoked[t][2].raised

\* ---------------------------------------------------------------- coordination claims
\* C19: when a message is published whose recipient role has no registered
\* agent, a "recipient not found" WARNING event is appended to the event log,
\* publish succeeds and the message is in the bus history.
C19_UnregisteredRecipientWarned ==
    [][nCalls' = nCalls + 1 /\ agents[Last(message_history').recipient] = <<>> =>
         LET m == Last(message_history') IN
         /\ m.id = nCalls'
         /\ \E i \in 1..Len(appended') :
               /\ appended'[i].source = "COORDINATION"
               /\ appended'[i].level = "WARNING"
               /\ appended'[i].message = <<"Recipient not found: ", m.recipient>>]_vars

\* C20: for every message published to a role that has a registered agent, the
\* handler appends an INFO "delivered" event with the message's id and type to
\* the event log, after the entry log_message made for the message itself.
C20_DeliveredLoggedAfterMessage ==
    [][nCalls' = nCalls + 1 /\ AgentTruthy(agents[Last(message_history').recipient]) =>
         LET m == Last(message_history')
             delivered == [level |-> "INFO",
                           source |-> "COORDINATION",
                           message |-> <<"Message delivered to ", m.recipient>>,
                           metadata |-> [message_id |-> m.id,
                                         message_type |-> m.message_type]]
         IN /\ Len(appended') >= 2
            /\ appended'[1].source = Upper(m.sender)
            /\ appended'[1].metadata.message_id = m.id
            /\ \A i \in 2..Len(appended') : appended'[i] = delivered
            /\ Last(entries') = delivered
            /\ \A i, j \in 1..Len(entries') :
                  /\ entries'[i].source # "COORDINATION"
                  /\ entries'[i].metadata.message_id = m.id
                  /\ entries'[j] = delivered
                  => i < j]_vars

\* C20 witness: a message to a registered role has just been published; the log
\* ends with the entry for the message followed by its "delivered" event.
C20_Witness ==
    /\ Len(appended) = 2
    /\ Len(entries) >= 2
    /\ appended[1].source = "VICTIM_ASSISTANT"
    /\ appended[2].source = "COORDINATION"
    /\ appended[2].level = "INFO"
    /\ appended[2].message = <<"Message delivered to ", "operator">>
    /\ entries[Len(entries) - 1] = appended[1]
    /\ Last(entries) = appended[2]

\* C21: publishing a message to a role with a registered agent never triggers
\* that agent's reasoning core: the publish, delivery handler included, leaves
\* the agent's conversation history unchanged and causes no model call and no
\* tool execution.
C21_DeliveryLeavesAgentAlone ==
    [][nCalls' = nCalls + 1 /\ AgentTruthy(agents[Last(message_history').recipient]) =>
         /\ messages' = messages
         /\ callTrace' = callTrace
         /\ execLog' = execLog
         /\ executed_tools' = executed_tools
         /\ pc' = pc /\ chatNo' = chatNo]_vars

\* C21 witness: a dispatch_update has been delivered to the agent registered for
\* victim_assistant, and the agent is as it was constructed.
C21_Witness ==
    /\ message_history # <<>>
    /\ Last(message_history).recipient = "victim_assistant"
    /\ agents["victim_assistant"] = <<"agent">>
    /\ appended # <<>>
    /\ Last(appended).message = <<"Message delivered to ", "victim_assistant">>
    /\ messages = <<>> /\ callTrace = <<>> /\ execLog = <<>> /\ pc = "idle"

\* A HIGH situation_update from victim_assistant to operator has just been
\* published on the bus of the constructed coordination system.
C22_ScenarioB ==
    /\ constructed
    /\ nCalls' = nCalls + 1
    /\ Last(message_history').message_type = "situation_update"
    /\ Last(message_history').sender = "victim_assistant"
    /\ Last(message_history').recipient = "operator"
    /\ Last(message_history').priority = HIGH

\* C22, as stated: after publishing a HIGH situation_update from
\* victim_assistant to operator on the bus wired to the coordination system,
\* get_message_history(limit=1) returns exactly that message and the event
\* log's most recent entry has severity WARNING.
C22_LastEntryIsWarning ==
    [][C22_ScenarioB =>
         /\ GetHistory(message_history', <<1>>) = <<Last(publishLog')>>
         /\ entries' # <<>>
         /\ Last(entries').level = "WARNING"]_vars

\* C22, amended: get_message_history(limit=1) returns exactly that message and
\* the entry the event log gained for the message has severity WARNING; it is
\* the log's most recent entry when no handler is subscribed for operator, and
\* is followed by the handler's events otherwise.
C22_MessageEntryIsWarning ==
    [][C22_ScenarioB =>
         LET m == Last(publishLog') IN
         /\ m.id = nCalls'
         /\ GetHistory(message_history', <<1>>) = <<m>>
         /\ appended' # <<>>
         /\ appended'[1].level = "WARNING"
         /\ appended'[1].metadata.message_id = m.id
         /\ Len(appended') = 1 + Len(subscribers["operator"])
         /\ \A i \in 2..Len(appended') : appended'[i].source = "COORDINATION"
         /\ Len(appended') <= max_entries =>
               entries'[Len(entries') - Len(subscribers["operator"])] = appended'[1]]_vars

\* C22 witness: the situation_update is the second message published, nobody is
\* registered for operator, and the log ends with its WARNING entry.
C22_Witness ==
    /\ constructed
    /\ Len(message_history) = 2
    /\ Last(message_history).message_type = "situation_update"
    /\ subscribers["operator"] = <<>>
    /\ Len(appended) = 1
    /\ Last(entries) = appended[1]
    /\ Last(entries).level = "WARNING"
    /\ Last(entries).metadata.message_id = 2

\* ---------------------------------------------------------------- event logger claims
\* C23: log_message(m) appends exactly one entry whose severity is determined
\* by m.priority alone: critical gives CRITICAL, high gives WARNING, medium
\* gives INFO, low gives DEBUG, for every message type.
C23_SeverityFromPriorityAlone ==
    [][Len(logged') = Len(logged) + 1
         /\ "message_type" \in DOMAIN Last(logged').metadata =>
         LET e == Last(logged') IN
         /\ appended' = <<e>>
         /\ Last(entries') = e
         /\ e.metadata.message_type \in MessageTypes
         /\ e.level = CASE e.metadata.priority = CRITICAL -> "CRITICAL"
                        [] e.metadata.priority = HIGH -> "WARNING"
                        [] e.metadata.priority = MEDIUM -> "INFO"
                        [] e.metadata.priority = LOW -> "DEBUG"]_vars

\* C23 witness: a LOW-priority emergency_escalation has just been logged, at
\* DEBUG.
C23_Witness ==
    /\ Len(appended) = 1
    /\ "message_type" \in DOMAIN appended[1].metadata
    /\ appended[1].metadata.message_type = "emergency_escalation"
    /\ appended[1].metadata.priority = LOW
    /\ appended[1].level = "DEBUG"
    /\ Last(entries) = appended[1]

\* C24, as stated: after every log_message / log_event call the event logger
\* holds at most max_entries entries, and they are exactly the most recent
\* min(k, max_entries) of the k entries ever appended, in append order.
C24_LastOfEverAppended ==
    [][Len(logged') > Len(logged) =>
         /\ Len(entries') <= max_entries
         /\ entries' = LastN(logged', Min(Len(logged'), max_entries))]_vars

\* C24, amended: after every log_message / log_event call the event logger
\* holds at most max_entries entries, and they are exactly the most recent
\* min(k, max_entries) of the k entries appended since the last clear(), in
\* append order; once full, an append evicts only the single oldest entry.
C24_LastOfAppendedSinceClear ==
    [][Len(logged') > Len(logged) =>
         LET since == SubSeq(logged', clearedAt' + 1, Len(logged')) IN
         /\ Len(entries') <= max_entries
         /\ entries' = LastN(since, Min(Len(since), max_entries))
         /\ Len(logged') = Len(logged) + 1 /\ Len(entries) = max_entries =>
               entries' = Append(Tail(entries), Last(logged'))]_vars

\* C24 witness: one entry more than max_entries has been appended, no clear()
\* was made, and the log holds all of them but the oldest.
C24_Witness ==
    /\ clearedAt = 0
    /\ Len(logged) = max_entries + 1
    /\ Len(entries) = max_entries
    /\ entries = Tail(logged)

\* ---------------------------------------------------------------- parser claims
\* A reasoning round has just been made in which the model returned a reply.
C25_RoundWithReply == lastReply' # <<>> /\ callTrace' = Append(callTrace, "round")

\* C25: no model reply in a reasoning round is fatal: whatever the reply is (a
\* well-formed object, JSON that is not an object, an object whose action is
\* not a string, or plain text), a round in which no tool is run either
\* continues the loop or stops it for the finalization call, and produces no
\* failure response.
C25_NoReplyIsFatal ==
    [][C25_RoundWithReply /\ execLog' = execLog =>
         /\ failed' = ""
         /\ pc' \in {"loop", "final"}
         /\ response' = response]_vars

\* The values of the `key:` lines of the plain-text reply r.
C26_Values(r, key) == {r.lines[i].value : i \in {j \in 1..Len(r.lines) : r.lines[j].key = key}}

\* C26: given a reply that is not parseable as structured data but has a line
\* thought: "x" and no action line, the parser yields thought equal to x and an
\* action the loop treats as none, so the loop stops without executing a tool
\* and proceeds to finalization; a reply with neither a thought nor a non-none
\* action is reported as unparsable and also stops the loop.
C26_MalformedReplyParsed ==
    [][C25_RoundWithReply /\ lastReply'[1].form = "text" =>
         LET r == lastReply'[1]
             parsed == parse_reasoning_response(r)
         IN /\ \A x \in C26_Values(r, "thought") :
                 x # "" /\ C26_Values(r, "action") = {} =>
                    /\ parsed.kind = "parsed"
                    /\ parsed.thought = x
                    /\ ActionIsNone(parsed.action)
                    /\ pc' = "final" /\ stopReason' = "none"
                    /\ execLog' = execLog /\ failed' = ""
            /\ C26_Values(r, "thought") \subseteq {""}
                 /\ C26_Values(r, "action") \subseteq {"None", "none", ""} =>
                    /\ parsed.kind = "unparsable"
                    /\ pc' = "final" /\ stopReason' = "unparsable"
                    /\ execLog' = execLog /\ failed' = ""]_vars

\* ---------------------------------------------------------------- termination claims
\* C27: every chat() call eventually returns, provided each model call and each
\* tool call returns or raises: the reasoning loop cannot iterate forever
\* whatever the model replies, and the finalization call ends the turn.
C27_ChatEventuallyReturns == (pc # "idle") ~> (pc = "idle")

\* C27 witness: a chat() has returned its answer after executing both tools,
\* one per round, and making the finalization call.
C27_Witness ==
    /\ pc = "idle"
    /\ failed = ""
    /\ execLog = <<"get_vitals", "get_location">>
    /\ callTrace = <<"round", "round", "final">>
    /\ stopReason = "cap"
    /\ Len(response) = 1
    /\ response[1].metadata.tools_used = 2

\* ---------------------------------------------------------------- simple path claims
\* C28: when the predicate says reasoning is not required, chat() makes exactly
\* one model call, executes no tool, appends exactly one assistant turn after
\* the user turn, and returns a response with an empty executed-tools list and
\* metadata type simple.
C28_SimplePathOneCall ==
    [][pc = "simple" =>
         /\ callTrace = <<>> /\ execLog = <<>>
         /\ Last(messages) = Turn("user", "hello", chatNo)
         /\ pc' = "idle"
         /\ callTrace' = <<"simple">>
         /\ execLog' = <<>> /\ executed_tools' = <<>>
         /\ failed' = "" =>
               /\ Len(messages') = Len(messages) + 1
               /\ Front(messages') = messages
               /\ Last(messages').role = "assistant"
               /\ Last(messages').call = chatNo
               /\ response' = <<[content |-> Last(messages').content,
                                 tools_executed |-> <<>>,
                                 metadata |-> [type |-> "simple"]]>>]_vars

\* C28 witness: the second chat() took the simple path and returned its answer;
\* the history ends with its user turn and its assistant turn.
C28_Witness ==
    /\ pc = "idle" /\ chatNo = 2 /\ failed = ""
    /\ callTrace = <<"simple">>
    /\ execLog = <<>>
    /\ Len(messages) >= 2
    /\ messages[Len(messages) - 1] = Turn("user", "hello", 2)
    /\ Last(messages).role = "assistant"
    /\ response = <<[content |-> Last(messages).content,
                     tools_executed |-> <<>>,
                     metadata |-> [type |-> "simple"]]>>

\* ---------------------------------------------------------------- tool sequencing claims
\* C30: tool executions inside one reasoning loop are strictly sequential and
\* each is followed by its result turn before the next model call: when a model
\* call is made, every tool executed so far in the loop has run to completion
\* and the history passed to the call ends with their system-role result
\* turns, in execution order; one round runs at most one tool.
C30_ResultTurnBeforeNextModelCall ==
    [][Len(callTrace') = Len(callTrace) + 1 /\ executed_tools # <<>> =>
         LET n == Len(executed_tools) IN
         /\ Len(execLog) = n /\ Len(outcomes) = n
         /\ \A i \in 1..n : execLog[i] = executed_tools[i].tool
         /\ Len(messages) >= n
         /\ \A i \in 1..n :
               messages[Len(messages) - n + i] =
                  Turn("system", ToolResultContent(executed_tools[i].result), chatNo)
         /\ Len(execLog') <= n + 1]_vars

\* C30 witness: the second round has run its tool after the first round's tool
\* result was in the history; the history ends with both result turns.
C30_Witness ==
    /\ pc = "loop"
    /\ callTrace = <<"round", "round">>
    /\ execLog = <<"get_location", "get_vitals">>
    /\ outcomes = <<"success", "error">>
    /\ Len(messages) >= 3
    /\ messages[Len(messages) - 1] =
          Turn("system", ToolResultContent(executed_tools[1].result), chatNo)
    /\ Last(messages) = Turn("system", ToolResultContent(executed_tools[2].result), chatNo)
    /\ executed_tools[1].tool = "get_location"
    /\ executed_tools[2].result.status = "error"

C31_ResultTurns ==
    [i \in 1..Len(executed_tools) |->
        Turn("system", <<"Tool result: ", executed_tools[i].result>>, chatNo)]

\* The last chat() call ran the reasoning loop and returned a response that is
\* not a failure response, and the history was not reset since.
C31_ReasoningChatReturned ==
    /\ ChatOver
    /\ failed = ""
    /\ callTrace # <<>>
    /\ callTrace[Len(callTrace)] = "final"
    /\ messages # <<>>

\* C31: after a chat() call in reasoning mode that returns a non-failure
\* response, the history is the history before the call, then the user turn,
\* then one system-role tool-result turn per executed tool in execution order,
\* then exactly one assistant turn whose content is the response content;
\* nothing that was there before is modified or removed.
C31_HistoryAfterReasoningChat ==
    C31_ReasoningChatReturned =>
        messages = historyBefore
                     \o <<Turn("user", "hello", chatNo)>>
                     \o C31_ResultTurns
                     \o <<Turn("assistant", response[1].content, chatNo)>>

\* A second chat() call that executed two tools has returned its answer.
C31_Witness ==
    /\ C31_ReasoningChatReturned
    /\ historyBefore # <<>>
    /\ Len(executed_tools) = 2

\* ---------------------------------------------------------------- C32
\* The last chat() call reached finalization and the final-answer model call
\* gave back an answer.
C32_FinalizationAnswered ==
    /\ ChatOver
    /\ callTrace # <<>>
    /\ callTrace[Len(callTrace)] = "final"
    /\ failed \notin {"ConnectionError", "TypeError"}

\* C32: for every max_iterations >= 0, a chat() call that reaches finalization
\* returns metadata whose iteration count is the number of reasoning-round
\* model calls of that call and whose tool count is the length of the
\* executed-tools list.
C32_MetadataCountsRoundsAndTools ==
    C32_FinalizationAnswered =>
        /\ "thinking_iterations" \in DOMAIN response[1].metadata
        /\ response[1].metadata.thinking_iterations = Count(callTrace, "round")
        /\ response[1].metadata.tools_used = Len(executed_tools)

\* The same statement for the agents whose loop can run at least one pass.
C32_MetadataCountsWhenLoopCanRun ==
    max_iterations >= 1 => C32_MetadataCountsRoundsAndTools

\* ---------------------------------------------------------------- C34
\* C34: whenever chat() returns a failure response, the conversation history
\* is the history before the call: neither the user turn nor any tool-result
\* or assistant turn appended during the failed call remains.
C34_FailureRestoresHistory ==
    ChatOver /\ failed # "" /\ ~propagated => messages = historyBefore

\* What the handler does restore: the history before the call is still the
\* beginning of the history after a failed call.
C34_FailureKeepsEarlierTurns ==
    ChatOver /\ failed # "" /\ ~propagated => IsPrefix(historyBefore, messages)

\* ---------------------------------------------------------------- C39
\* The tools whose result turn was appended to the history by chat() call c.
C39_ToolsRunInCall(c) ==
    {messages[i].content[2].tool :
        i \in {j \in 1..Len(messages) :
                 messages[j].role = "system" /\ messages[j].call = c}}

\* C39: the at-most-once restriction is scoped to one reasoning loop: while
\* the loop of a chat() call runs, the set of already-called tools holds the
\* tools run by this call and no tool run by an earlier call, so a tool run
\* in an earlier call is still open to the tool branch.
C39_CalledToolsScopedToOneCall ==
    pc = "loop" =>
        /\ called_tools = C39_ToolsRunInCall(chatNo)
        /\ \A t \in AvailableTools \ C39_ToolsRunInCall(chatNo) :
              hasExecutor => MayExecute(t, called_tools)

\* The same tool has run in the first and in the second chat() call.
C39_Witness ==
    /\ chatNo = 2
    /\ \E t \in AvailableTools :
          t \in C39_ToolsRunInCall(1) /\ t \in C39_ToolsRunInCall(2)

\* ---------------------------------------------------------------- C36
\* The "delivered" events among the entries the last operation appended.
C36_DeliveredEvents ==
    {i \in 1..Len(appended) :
        /\ appended[i].source = "COORDINATION"
        /\ appended[i].level = "INFO"
        /\ appended[i].message = <<"Message delivered to ", Last(publishLog).recipient>>}

\* The last operation was send_message with a message addressed to a role
\* that has a registered agent.
C36_SentToRegisteredRole ==
    /\ appended # <<>>
    /\ appended[1].source # "COORDINATION"
    /\ AgentTruthy(agents[Last(publishLog).recipient])

\* C36: a message addressed to a registered role produces exactly one
\* "delivered" event in the event log, however many times register_agent was
\* called for that role.
C36_ExactlyOneDeliveredEvent ==
    C36_SentToRegisteredRole => Cardinality(C36_DeliveredEvents) = 1

\* What holds instead: one "delivered" event per register_agent call made for
\* the recipient role.
C36_OneDeliveredEventPerRegistration ==
    C36_SentToRegisteredRole =>
        Cardinality(C36_DeliveredEvents) = Len(subscribers[Last(publishLog).recipient])

\* ---------------------------------------------------------------- C38
\* The messages get_priority_messages(priority) returns, as a set.
C38_Bucket(priority) ==
    {get_priority_messages(priority_queue, priority)[i] :
        i \in 1..Len(get_priority_messages(priority_queue, priority))}

\* The messages get_message_history() returns, as a set.
C38_History == {GetHistory(message_history, <<>>)[i] : i \in 1..Len(message_history)}

\* C38: after any sequence of publish and clear_history calls, whenever the
\* getters can run (nobody holds the lock), every message returned by
\* get_priority_messages or get_critical_messages is in get_message_history().
C38_BucketsWithinHistory ==
    LockAvailable(lock) => \A p \in Priorities : C38_Bucket(p) \subseteq C38_History

\* What the buckets are consistent with: the messages ever appended to the
\* history, cleared or not, bucket by bucket and in publish order.
C38_BucketsHoldEveryPublished ==
    LockAvailable(lock) =>
        \A p \in Priorities :
            get_priority_messages(priority_queue, p)
              = SelectSeq(publishLog, LAMBDA m : m.priority = p)

\* ---------------------------------------------------------------- C37
\* The subscriptions of cb for the recipient role of the n-th message ever
\* appended that were made before that message was appended.
C37_EarlierSubscriptions(cb, n) ==
    {i \in 1..Len(subscriptions) :
        /\ subscriptions[i].cb = cb
        /\ subscriptions[i].role = publishLog[n].recipient
        /\ subscriptions[i].at < n}

\* C37: the bus never replays history to a late subscriber: a callback is
\* invoked with a message at most once per subscription it held for the
\* message's recipient role when the message was published, so never for a
\* message published before its subscribe call returned; and subscribe itself
\* invokes nothing.  Such messages stay in the history and the buckets only.
C37_NoReplayToLateSubscriber ==
    \A cb \in Callbacks : \A n \in 1..Len(publishLog) :
        Count(inbox[cb], publishLog[n]) <= Cardinality(C37_EarlierSubscriptions(cb, n))

\* A callback subscribed for a role after a message to that role had been
\* published; a later message to the role was delivered to it, the earlier
\* one never was and is still in the history.
C37_Witness ==
    \E cb \in Callbacks :
       /\ lock = "free"
       /\ Len(publishLog) = 2
       /\ message_history = publishLog
       /\ publishLog[1].recipient = publishLog[2].recipient
       /\ Len(subscriptions) = 1
       /\ subscriptions[1] = [cb |-> cb, role |-> publishLog[1].recipient, at |-> 1]
       /\ inbox[cb] = <<publishLog[2]>>

\* ---------------------------------------------------------------- C33
\* C33: all appends to the event log are serialized: for any interleaving of
\* publish() and register_agent() calls on different threads, no two threads
\* are inside EventLogger._add_entry at the same time.
C33_AddEntrySerialized ==
    Cardinality({t \in Threads : tpc[t] \in InAddEntry}) <= 1

\* What the bus lock does serialize: the _add_entry calls made from inside
\* publish, by the listener and by the delivery handler.
C33_AddEntryFromPublishSerialized ==
    /\ Cardinality({t \in Threads : tpc[t] \in {"lis_trim", "sub_trim"}}) <= 1
    /\ \A t \in Threads : tpc[t] \in {"lis_trim", "sub_trim"} => lock = t

\* ---------------------------------------------------------------- C35
\* C35: every publish() call eventually returns, even when a listener or
\* subscriber callback invoked during delivery itself calls publish(),
\* subscribe() or get_message_history() on the same bus: the bus lock never
\* blocks the publishing thread on itself.
C35_PublishEventuallyReturns ==
    \A t \in Threads : (tpc[t] # "idle") ~> (tpc[t] = "idle")

\* The state the claim rules out: a thread waits for the lock it holds itself.
C35_BlockedOnItself ==
    \E t \in Threads : tpc[t] = "blocked" /\ lock = t

\* Without a callback that calls the bus, no thread ever waits for a lock it
\* holds: a thread blocks only through such a callback.
C35_BlocksOnlyByReentry ==
    \A t \in Threads :
        tpc[t] = "blocked" =>
            /\ lock = t
            /\ invoked[t] # <<>>
            /\ ~Last(invoked[t]).raised

====
